---- MODULE Spec2Model ----
(***************************************************************************)
(* State-machine model of the user-level thread runtimes of the           *)
(* repository: A1/thread.c (linked run list headed by current_thread)     *)
(* and A2/thread.c (thread table plus a ready queue of nodes).            *)
(*                                                                         *)
(* A thread control block of A1 is identified with the TID stored in it:  *)
(* thread_create never hands out a TID that is held by a block of the run *)
(* list, so two blocks of the list never share one.                        *)
(***************************************************************************)
EXTENDS Integers, Sequences, FiniteSets, TLC

\* Size of the identifier space (thread.h), scaled down for checking.
THREAD_MAX_THREADS == 4

\* Sentinels and error values of thread.h.
THREAD_ANY == -1
THREAD_SELF == -2
THREAD_INVALID == -3
THREAD_NONE == -4
THREAD_NOMORE == -5
THREAD_NOMEMORY == -6
THREAD_FAILED == -7

\* The null pointer.
NULL == -8

Tids == 0 .. (THREAD_MAX_THREADS - 1)

\* Arguments the callers pass to thread_yield and thread_kill: the
\* sentinels, every identifier, and one out-of-range identifier.
YieldArgs == {THREAD_ANY, THREAD_SELF} \cup (0 .. THREAD_MAX_THREADS)
KillArgs == {THREAD_ANY} \cup (0 .. THREAD_MAX_THREADS)
ExitCodes == {0, 1}

\* Most nodes the ready queue of A2 holds in the model: thread_create is
\* not called with that many nodes queued.
MaxReadyNodes == 3

\* Most successful thread_kill calls and most failing allocations of A2 in
\* one run of the model.
MaxKills == 1
MaxAllocFailures == 1

\* Most threads and phases the barrier program is started with in the model.
MaxNthreads == 3
MaxNphases == 3

\* The geometry of the vsfs image of the model: bytes in a block, direct
\* block numbers in an inode, blocks and inodes of the image.
VSFS_BLOCK_SIZE == 2
VSFS_NUM_DIRECT == 1
sb_num_blocks == 6
sb_num_inodes == 5
\* The first block of the data region; the blocks below it hold the
\* superblock, the bitmaps and the inode table.
sb_data_region == 1
VSFS_BLK_UNASSIGNED == 0
\* The number of values of the unsigned block numbers and counters of the
\* image. They are 32 bits wide; the model keeps 30 of the bits, which is
\* as wide as its integers allow and far above every count of the image.
Uint32Values == 2 ^ 30
VSFS_BLK_MAX == Uint32Values - 1
VSFS_ROOT_INO == 0
VSFS_INO_MAX == Uint32Values - 1
\* The cells of a directory entry: its inode number, then its name.
DentrySize == 2
\* The inode and the name of the regular file the image holds when it is
\* mounted.
FileIno == 1
FileName == 1
\* Most names the callers use (a name is one nonzero byte), and most calls
\* on the file system in one run of the model.
MaxNames == 2
MaxCalls == 4
\* errno values.
ENOENT == 2
EFBIG == 27
ENOSPC == 28
\* A byte of a buffer that the call left unwritten.
Indeterminate == -1

VARIABLES
    \* ---- A1/thread.c ----
    current_thread,   \* struct thread *current_thread (a TID, or NULL)
    next,             \* next[t]: the next pointer of block t
    state,            \* state[t]: 0 unused, 1 active, 2 waiting, 3 killed
    context,          \* context[t]: where block t's saved context resumes:
                      \* "stub" (thread_stub, never run), "yield" (after the
                      \* getcontext of thread_yield) or "stale" (not saved, or
                      \* saved in a call that has since returned)
    want,             \* want[t]: want_tid in t's frame of thread_yield, NULL
                      \* when t is not inside thread_yield
    to_free_1,        \* stack pending free (TID of its owner) or NULL
    to_free_2,        \* block pending free or NULL
    pc,               \* position of the running thread: "call" (user code
                      \* about to call the library), "user" (user code just
                      \* given control by a return or a first dispatch),
                      \* "resume" (a setcontext has just transferred control)
                      \* or "exited" (exit() was called)
    exit_status,      \* argument of exit(), NULL before
    call,             \* history: the last library call and what it returned
    live,             \* history: threads created (or initial) and not yet exited
    switched_to,      \* history: switched_to[t] is the thread dispatched when
                      \* t last switched away inside thread_yield
    round_robin,      \* history: every call so far was a thread_create by the
                      \* initial thread or a thread_yield(THREAD_ANY)
    \* ---- A2/thread.c ----
    a2_current_thread,  \* Tid current_thread
    threads,            \* struct thread threads[THREAD_MAX_THREADS]: state,
                        \* context (as in A1) and, of the thread's frame of
                        \* thread_yield, the locals want_tid and enabled
    ready,              \* the list at ready_head: the tid of each node
    a2_to_free_1,       \* stack pending free (index of its slot) or NULL
    a2_to_free_2,       \* ready node pending free (its tid) or NULL
    wq_allocated,       \* a struct wait_queue made by wait_queue_create and
                        \* not yet destroyed exists
    wq_head,            \* its field head (a tid, or NULL)
    wait_next,          \* wait_next[t]: the field next of threads[t] while t
                        \* is outside the run list and reached from wq_head
    lock_allocated,     \* a struct lock made by lock_create exists
    cv_allocated,       \* a struct cv made by cv_create exists
    holding,            \* the threads whose user code is between a
                        \* lock_acquire that returned and its lock_release
    interrupts_enabled, \* the signal mask of interrupt.h: timer not blocked
    a2_pc,              \* as pc, and "undefined" once a setcontext has used
                        \* a context that is not valid
    a2_exit_status,     \* argument of exit(), NULL before
    a2_call,            \* history: the last library call and what it returned
    a2_kills,           \* history: successful thread_kill calls so far
    a2_alloc_failures,  \* history: failed malloc369 calls so far
    \* ---- T3/barrier.c ----
    Nthreads,           \* int Nthreads
    Nphases,            \* int Nphases
    bar,                \* struct barrier_s bar: num_arrived, ready, mutex
                        \* (the thread that holds it, or NULL) and cv (the
                        \* threads blocked in pthread_cond_wait)
    spin_build,         \* what the build made of the loop of line 95, whose
                        \* read of bar.ready races with the writes of lines
                        \* 101 and 108
    t3_pc,              \* t3_pc[t]: position of thread t in thread_func
    t3_i,               \* t3_i[t]: the loop variable i of thread_func
    printed,            \* history: printed[t] is the number of phases
                        \* thread t has printed
    main_pc,            \* position of main
    main_i,             \* the loop variable i of main
    \* ---- A4/vsfs.c ----
    sb_free_blocks,     \* fs->sb->sb_free_blocks (32 bits, unsigned)
    sb_free_inodes,     \* fs->sb->sb_free_inodes (32 bits, unsigned)
    dbmap,              \* fs->dbmap: dbmap[b] iff bit b is set
    ibmap,              \* fs->ibmap: ibmap[i] iff bit i is set
    itable,             \* fs->itable: i_size, i_blocks, i_direct and
                        \* i_indirect of each inode
    image,              \* fs->image: image[b][c] is cell c of block b
    fs_pc,              \* "run", "aborted" after a failed assert, or
                        \* "corrupted" after an access outside the data
                        \* region and the inode table
    fs_call,            \* history: the last call, its arguments, the size
                        \* of the file before it, and what it returned
    fs_calls            \* history: calls on the file system so far

a1vars == <<current_thread, next, state, context, want, to_free_1, to_free_2,
            pc, exit_status, call, live, switched_to, round_robin>>

a2vars == <<a2_current_thread, threads, ready, a2_to_free_1, a2_to_free_2,
            wq_allocated, wq_head, wait_next, lock_allocated, cv_allocated,
            holding, interrupts_enabled, a2_pc, a2_exit_status, a2_call,
            a2_kills, a2_alloc_failures>>

t3vars == <<Nthreads, Nphases, bar, spin_build, t3_pc, t3_i, printed, main_pc,
            main_i>>

a4vars == <<sb_free_blocks, sb_free_inodes, dbmap, ibmap, itable, image, fs_pc,
            fs_call, fs_calls>>

vars == <<a1vars, a2vars, t3vars, a4vars>>

\* What the steps of one program leave alone: the other programs.
outside_a1 == <<a2vars, t3vars, a4vars>>
outside_a2 == <<a1vars, t3vars, a4vars>>
outside_t3 == <<a1vars, a2vars, a4vars>>
outside_a4 == <<a1vars, a2vars, t3vars>>

(***************************************************************************)
(* A1/thread.c                                                             *)
(***************************************************************************)

\* The runtime's memory as one record, so that the C functions compose.
A1State ==
    [current_thread |-> current_thread, next |-> next, state |-> state,
     context |-> context, want |-> want, to_free_1 |-> to_free_1,
     to_free_2 |-> to_free_2, pc |-> pc, exit_status |-> exit_status,
     call |-> call, live |-> live, switched_to |-> switched_to,
     round_robin |-> round_robin]

A1Set(m) ==
    /\ current_thread' = m.current_thread
    /\ next' = m.next
    /\ state' = m.state
    /\ context' = m.context
    /\ want' = m.want
    /\ to_free_1' = m.to_free_1
    /\ to_free_2' = m.to_free_2
    /\ pc' = m.pc
    /\ exit_status' = m.exit_status
    /\ call' = m.call
    /\ live' = m.live
    /\ switched_to' = m.switched_to
    /\ round_robin' = m.round_robin
    /\ UNCHANGED outside_a1

\* The blocks reached from c by following next, in order (fuel bounds the
\* walk; the C loops have no bound and rely on the list being acyclic).
RECURSIVE ListFrom(_, _, _)
ListFrom(nx, c, fuel) ==
    IF c = NULL \/ fuel = 0 THEN <<>>
    ELSE <<c>> \o ListFrom(nx, nx[c], fuel - 1)

Range(s) == {s[i] : i \in 1 .. Len(s)}

\* The run list headed by current_thread, and its tail, the ready queue.
RunList == ListFrom(next, current_thread, THREAD_MAX_THREADS + 1)
ReadyQueue == IF RunList = <<>> THEN <<>> ELSE Tail(RunList)

\* add_to_end's loop: the last block of the list that starts at c.
RECURSIVE last_of(_, _, _)
last_of(nx, c, fuel) ==
    IF nx[c] = NULL \/ fuel = 0 THEN c ELSE last_of(nx, nx[c], fuel - 1)

\* Mutant of add_to_end: t goes right behind the head.
add_to_end_behind_head(nx, head, t) ==
    IF t = head THEN nx ELSE [nx EXCEPT ![t] = nx[head], ![head] = t]

\* add_to_end(t) on the list that starts at head.
add_to_end(nx, head, t) ==
    [nx EXCEPT ![last_of(nx, head, THREAD_MAX_THREADS)] = t]

\* free(): the memory of a freed block no longer holds a thread.
free_stuff(m) ==
    LET b == m.to_free_2
        freed == IF b = NULL THEN m
                 ELSE [m EXCEPT !.state[b] = 0, !.next[b] = NULL,
                                !.context[b] = "stale", !.want[b] = NULL,
                                !.switched_to[b] = NULL]
    IN  [freed EXCEPT !.to_free_1 = NULL, !.to_free_2 = NULL]

thread_id(m) == m.current_thread

thread_exit(m, exit_code) ==
    LET c == m.current_thread
        m1 == [m EXCEPT !.live = @ \ {c}]
    IN  IF c = 0
        THEN IF m1.next[c] = NULL
             THEN [free_stuff(m1) EXCEPT !.pc = "exited",
                                         !.exit_status = exit_code]
             ELSE [m1 EXCEPT !.current_thread = m1.next[c], !.pc = "resume"]
        ELSE LET m2 == [m1 EXCEPT !.to_free_1 = c, !.to_free_2 = c,
                                  !.current_thread = m1.next[c]]
             IN  IF m2.current_thread = NULL
                 THEN [free_stuff(m2) EXCEPT !.pc = "exited",
                                             !.exit_status = exit_code]
                 ELSE [m2 EXCEPT !.pc = "resume"]

\* A library call returning v to the user code of the running thread.
a1_return(m, v) ==
    [m EXCEPT !.pc = "user", !.call.ret = v, !.call.returned = TRUE]

\* Mutant of yield_return_value: the caller's own identifier.
yield_return_value_own(m, c) == c

\* The value thread_yield returns once its saved context is resumed: the
\* local want_tid.
yield_return_value(m, c) == m.want[c]

\* Mutant of yield_after_getcontext: the test for a kill is missing.
yield_after_getcontext_no_kill_test(m, wanted) ==
    LET m1 == free_stuff(m)
        c == m1.current_thread
    IN  IF m1.state[c] = 2
        THEN a1_return([m1 EXCEPT !.state[c] = 1, !.want[c] = NULL,
                                  !.context[c] = "stale",
                                  !.switched_to[c] = NULL],
                       yield_return_value(m1, c))
        ELSE [m1 EXCEPT !.state[c] = 2, !.current_thread = wanted,
                        !.pc = "resume", !.switched_to[c] = wanted]

\* thread_yield from its getcontext on: run on the first pass and again
\* each time the saved context is resumed.
yield_after_getcontext(m, wanted) ==
    LET m1 == free_stuff(m)
        c == m1.current_thread
    IN  IF m1.state[c] = 3 THEN thread_exit(m1, 0)
        ELSE IF m1.state[c] = 2
        THEN a1_return([m1 EXCEPT !.state[c] = 1, !.want[c] = NULL,
                                  !.context[c] = "stale",
                                  !.switched_to[c] = NULL],
                       yield_return_value(m1, c))
        ELSE [m1 EXCEPT !.state[c] = 2, !.current_thread = wanted,
                        !.pc = "resume", !.switched_to[c] = wanted]

\* Mutant of yield_search: the loop gives up one block early, so that a miss
\* ends on a block that has a successor.
RECURSIVE yield_search_early(_, _, _, _)
yield_search_early(nx, curr, want_tid, fuel) ==
    IF nx[curr] = NULL \/ nx[curr] = want_tid \/ fuel = 0 THEN curr
    ELSE IF nx[nx[curr]] = NULL THEN curr
    ELSE yield_search_early(nx, nx[curr], want_tid, fuel - 1)

\* The search loop of thread_yield: from curr, the block whose successor
\* holds want_tid, or the last block.
RECURSIVE yield_search(_, _, _, _)
yield_search(nx, curr, want_tid, fuel) ==
    IF nx[curr] = NULL \/ nx[curr] = want_tid \/ fuel = 0 THEN curr
    ELSE yield_search(nx, nx[curr], want_tid, fuel - 1)

\* Mutant of yield_requeue: the list is not cut behind current_thread.
yield_requeue_uncut(nx, c) == add_to_end(nx, c, c)

\* current_thread goes behind the last block and the list is cut after it.
yield_requeue(nx, c) == [add_to_end(nx, c, c) EXCEPT ![c] = NULL]

\* Mutant of yield_takes_head: THREAD_ANY counts only when a thread is ready.
yield_takes_head_if_ready(m, want_tid) ==
    /\ m.next[m.current_thread] # NULL
    /\ \/ want_tid = THREAD_ANY
       \/ want_tid = m.next[m.current_thread]

\* The conditions of thread_yield's if / else-if chain.
yield_takes_head(m, want_tid) ==
    \/ want_tid = THREAD_ANY
    \/ /\ m.next[m.current_thread] # NULL
       /\ want_tid = m.next[m.current_thread]

yield_takes_self(m, want_tid) ==
    want_tid = THREAD_SELF \/ want_tid = thread_id(m)

thread_yield(m, want_tid) ==
    LET c == m.current_thread
        n == m.next[c]
        m0 == [m EXCEPT !.call = [op |-> "yield", arg |-> want_tid,
                                  ret |-> THREAD_FAILED, returned |-> FALSE],
                        !.round_robin = @ /\ want_tid = THREAD_ANY]
    IN  IF yield_takes_head(m0, want_tid)
        THEN IF n = NULL THEN a1_return(m0, THREAD_NONE)
             ELSE yield_after_getcontext(
                      [m0 EXCEPT !.next = yield_requeue(m0.next, c),
                                 !.want[c] = n, !.context[c] = "yield"], n)
        ELSE IF yield_takes_self(m0, want_tid)
        THEN yield_after_getcontext(
                 [m0 EXCEPT !.want[c] = thread_id(m0), !.context[c] = "yield"], c)
        ELSE IF want_tid \notin Tids \/ n = NULL
        THEN a1_return(m0, THREAD_INVALID)
        ELSE LET curr == yield_search(m0.next, n, want_tid, THREAD_MAX_THREADS)
             IN  IF m0.next[curr] = NULL THEN a1_return(m0, THREAD_INVALID)
                 ELSE LET wanted == m0.next[curr]
                          nx1 == [m0.next EXCEPT ![curr] = m0.next[wanted]]
                          nx2 == [nx1 EXCEPT ![wanted] = nx1[c]]
                      IN  yield_after_getcontext(
                              [m0 EXCEPT !.next = yield_requeue(nx2, c),
                                         !.want[c] = want_tid,
                                         !.context[c] = "yield"], wanted)

\* The TID search of thread_create: one iteration of the outer loop.
RECURSIVE create_find_tid(_, _)
create_find_tid(m, new_tid0) ==
    LET new_tid == new_tid0 + 1
    IN  IF new_tid = THREAD_MAX_THREADS THEN THREAD_NOMORE
        ELSE IF new_tid \in Range(ListFrom(m.next, m.current_thread,
                                           THREAD_MAX_THREADS + 1))
        THEN create_find_tid(m, new_tid)
        ELSE new_tid

\* Mutant of thread_create: the new thread goes to the front of the ready
\* queue.
thread_create_at_head(m, mem) ==
    LET new_tid == create_find_tid(m, 0)
        m0 == [m EXCEPT !.call = [op |-> "create", arg |-> NULL,
                                  ret |-> THREAD_FAILED, returned |-> FALSE],
                        !.round_robin = @ /\ m.current_thread = 0]
    IN  IF new_tid = THREAD_NOMORE THEN a1_return(m0, THREAD_NOMORE)
        ELSE IF mem # "ok" THEN a1_return(m0, THREAD_NOMEMORY)
        ELSE LET m1 == [m0 EXCEPT !.state[new_tid] = 1,
                                  !.next[new_tid] = NULL,
                                  !.context[new_tid] = "stub",
                                  !.live = @ \cup {new_tid}]
             IN  a1_return([m1 EXCEPT !.next = add_to_end_behind_head(
                                          m1.next, m1.current_thread, new_tid)],
                           new_tid)

thread_create(m, mem) ==
    LET new_tid == create_find_tid(m, 0)
        m0 == [m EXCEPT !.call = [op |-> "create", arg |-> NULL,
                                  ret |-> THREAD_FAILED, returned |-> FALSE],
                        !.round_robin = @ /\ m.current_thread = 0]
    IN  IF new_tid = THREAD_NOMORE THEN a1_return(m0, THREAD_NOMORE)
        ELSE IF mem # "ok" THEN a1_return(m0, THREAD_NOMEMORY)
        ELSE LET m1 == [m0 EXCEPT !.state[new_tid] = 1,
                                  !.next[new_tid] = NULL,
                                  !.context[new_tid] = "stub",
                                  !.live = @ \cup {new_tid}]
             IN  a1_return([m1 EXCEPT !.next = add_to_end(m1.next,
                                                  m1.current_thread, new_tid)],
                           new_tid)

\* Mutant of thread_kill: the target is also unlinked from the run list.
thread_kill_unlinking(m, tid) ==
    LET c == m.current_thread
        m0 == [m EXCEPT !.call = [op |-> "kill", arg |-> tid,
                                  ret |-> THREAD_FAILED, returned |-> FALSE],
                        !.round_robin = FALSE]
        pred == yield_search(m0.next, c, tid, THREAD_MAX_THREADS)
    IN  IF tid \in Range(ListFrom(m0.next, m0.next[c], THREAD_MAX_THREADS + 1))
        THEN a1_return([m0 EXCEPT !.state[tid] = 3,
                                  !.next[pred] = m0.next[tid]], tid)
        ELSE a1_return(m0, THREAD_INVALID)

thread_kill(m, tid) ==
    LET c == m.current_thread
        m0 == [m EXCEPT !.call = [op |-> "kill", arg |-> tid,
                                  ret |-> THREAD_FAILED, returned |-> FALSE],
                        !.round_robin = FALSE]
    IN  IF tid \in Range(ListFrom(m0.next, m0.next[c], THREAD_MAX_THREADS + 1))
        THEN a1_return([m0 EXCEPT !.state[tid] = 3], tid)
        ELSE a1_return(m0, THREAD_INVALID)

\* thread_stub up to the call of the thread's entry function.
thread_stub(m) ==
    [free_stuff(m) EXCEPT !.pc = "user",
        !.context[m.current_thread] = "stale",
        !.call = [op |-> "start", arg |-> NULL,
                  ret |-> THREAD_FAILED, returned |-> FALSE]]

\* No library call has been made since the user code last took control.
NoCall == [op |-> "none", arg |-> NULL, ret |-> THREAD_FAILED,
           returned |-> FALSE]

A1Init ==
    /\ current_thread = 0
    /\ next = [t \in Tids |-> NULL]
    /\ state = [t \in Tids |-> IF t = 0 THEN 1 ELSE 0]
    /\ context = [t \in Tids |-> "stale"]
    /\ want = [t \in Tids |-> NULL]
    /\ to_free_1 = NULL
    /\ to_free_2 = NULL
    /\ pc = "call"
    /\ exit_status = NULL
    /\ call = NoCall
    /\ live = {0}
    /\ switched_to = [t \in Tids |-> NULL]
    /\ round_robin = TRUE

ThreadCreate(mem) ==
    /\ pc = "call"
    /\ A1Set(thread_create(A1State, mem))

ThreadYield(want_tid) ==
    /\ pc = "call"
    /\ A1Set(thread_yield(A1State, want_tid))

ThreadKill(tid) ==
    /\ pc = "call"
    /\ A1Set(thread_kill(A1State, tid))

\* thread_exit called by user code, or by thread_stub when the entry
\* function returns (exit_code 0).
ThreadExit(exit_code) ==
    /\ pc = "call"
    /\ A1Set(thread_exit([A1State EXCEPT !.call =
                 [op |-> "exit", arg |-> exit_code,
                  ret |-> THREAD_FAILED, returned |-> FALSE],
                 !.round_robin = FALSE], exit_code))

Resume ==
    LET \* What runs after a setcontext: the trampoline of a thread that has never
        \* run, or thread_yield from the getcontext that saved the context.
        a1_resume(m) ==
            LET c == m.current_thread
                m0 == [m EXCEPT !.call = [op |-> "resumed", arg |-> NULL,
                                          ret |-> THREAD_FAILED, returned |-> FALSE]]
            IN  IF m.context[c] = "stub" THEN thread_stub(m)
                ELSE yield_after_getcontext(m0, m0.want[c])
    IN  /\ pc = "resume"
        /\ A1Set(a1_resume(A1State))

\* The user code of the running thread takes the value it was given and
\* runs up to its next library call.
UserCode ==
    /\ pc = "user"
    /\ pc' = "call"
    /\ call' = NoCall
    /\ UNCHANGED <<current_thread, next, state, context, want, to_free_1,
                   to_free_2, exit_status, live, switched_to, round_robin>>
    /\ UNCHANGED outside_a1

(***************************************************************************)
(* A2/thread.c: the thread table and the ready queue of nodes              *)
(***************************************************************************)

A2State ==
    [current_thread |-> a2_current_thread, threads |-> threads,
     ready |-> ready, to_free_1 |-> a2_to_free_1, to_free_2 |-> a2_to_free_2,
     wq_allocated |-> wq_allocated, wq_head |-> wq_head,
     wait_next |-> wait_next, lock_allocated |-> lock_allocated,
     cv_allocated |-> cv_allocated, holding |-> holding,
     interrupts_enabled |-> interrupts_enabled, pc |-> a2_pc,
     exit_status |-> a2_exit_status, call |-> a2_call]

A2Set(m) ==
    /\ a2_current_thread' = m.current_thread
    /\ threads' = m.threads
    /\ ready' = m.ready
    /\ a2_to_free_1' = m.to_free_1
    /\ a2_to_free_2' = m.to_free_2
    /\ wq_allocated' = m.wq_allocated
    /\ wq_head' = m.wq_head
    /\ wait_next' = m.wait_next
    /\ lock_allocated' = m.lock_allocated
    /\ cv_allocated' = m.cv_allocated
    /\ holding' = m.holding
    /\ interrupts_enabled' = m.interrupts_enabled
    /\ a2_pc' = m.pc
    /\ a2_exit_status' = m.exit_status
    /\ a2_call' = m.call
    /\ UNCHANGED outside_a2

\* interrupts_off() and interrupts_set(enabled) of interrupt.h.
interrupts_off(m) == [m EXCEPT !.interrupts_enabled = FALSE]
interrupts_set(m, enabled) == [m EXCEPT !.interrupts_enabled = enabled]

a2_free_stuff(m) == [m EXCEPT !.to_free_1 = NULL, !.to_free_2 = NULL]

\* ready_enqueue: a new node behind the last one, unless malloc369 fails.
ready_enqueue(m, tid, mem) ==
    IF mem = "no_node" THEN m ELSE [m EXCEPT !.ready = Append(@, tid)]

\* setcontext(&threads[current_thread].context): a context whose frame has
\* returned or whose stack was freed is not valid.
a2_setcontext(m) ==
    IF m.threads[m.current_thread].context = "stale"
    THEN [m EXCEPT !.pc = "undefined"]
    ELSE [m EXCEPT !.pc = "resume"]

a2_thread_exit(m, exit_code) ==
    LET c == m.current_thread
        m1 == [interrupts_off(m) EXCEPT !.threads[c].state = 0,
                                        !.threads[c].context = "stale",
                                        !.threads[c].want = NULL,
                                        !.threads[c].enabled = FALSE]
    IN  IF m1.ready = <<>>
        THEN [a2_free_stuff(m1) EXCEPT !.pc = "exited",
                                       !.exit_status = exit_code]
        ELSE a2_setcontext(
                 [m1 EXCEPT !.to_free_1 = IF c # 0
                                          THEN m1.threads[c].thread_stack
                                          ELSE @,
                            !.current_thread = Head(m1.ready),
                            !.to_free_2 = Head(m1.ready),
                            !.ready = Tail(m1.ready)])

a2_return(m, v) ==
    [m EXCEPT !.pc = "user", !.call.ret = v, !.call.returned = TRUE]

\* thread_yield of A2 from its getcontext on.
a2_yield_after_getcontext(m) ==
    LET m1 == a2_free_stuff(m)
        c == m1.current_thread
    IN  IF m1.threads[c].state = 3 THEN a2_thread_exit(m1, 0)
        ELSE IF m1.threads[c].state = 2
        THEN a2_return(
                 [interrupts_set(m1, m1.threads[c].enabled)
                     EXCEPT !.threads[c].state = 1,
                            !.threads[c].context = "stale",
                            !.threads[c].want = NULL,
                            !.threads[c].enabled = FALSE],
                 m1.threads[c].want)
        ELSE a2_setcontext([m1 EXCEPT !.threads[c].state = 2,
                                      !.current_thread = m1.threads[c].want])

\* The search loop of A2's thread_yield over the nodes behind the head: the
\* position of the first of them that holds want_tid, 0 when none does.
RECURSIVE a2_yield_search(_, _, _)
a2_yield_search(q, i, want_tid) ==
    IF i > Len(q) THEN 0
    ELSE IF q[i] = want_tid THEN i
    ELSE a2_yield_search(q, i + 1, want_tid)

a2_thread_yield(m, want_tid, mem) ==
    LET c == m.current_thread
        enabled == m.interrupts_enabled
        m0 == [interrupts_off(m) EXCEPT
                 !.call = [op |-> "yield", arg |-> want_tid,
                           ret |-> THREAD_FAILED, returned |-> FALSE]]
        saved(mm, w) == [mm EXCEPT !.threads[c].context = "yield",
                                   !.threads[c].want = w,
                                   !.threads[c].enabled = enabled]
    IN  IF want_tid = THREAD_ANY
           \/ (m0.ready # <<>> /\ want_tid = Head(m0.ready))
        THEN IF m0.ready = <<>> THEN a2_return(m0, THREAD_NONE)
             ELSE a2_yield_after_getcontext(
                      saved(ready_enqueue([m0 EXCEPT !.ready = Tail(@)],
                                          c, mem),
                            Head(m0.ready)))
        ELSE IF want_tid = THREAD_SELF \/ want_tid = c
        THEN a2_yield_after_getcontext(saved(m0, c))
        ELSE IF \/ want_tid \notin Tids
                \/ m0.ready = <<>>
                \/ m0.threads[want_tid].state = 0
        THEN a2_return(m0, THREAD_INVALID)
        ELSE LET i == a2_yield_search(m0.ready, 2, want_tid)
             IN  IF i = 0 THEN a2_return(m0, THREAD_INVALID)
                 ELSE a2_yield_after_getcontext(
                          saved(ready_enqueue(
                                    [m0 EXCEPT !.ready =
                                        SubSeq(@, 1, i - 1)
                                        \o SubSeq(@, i + 1, Len(@))],
                                    c, mem),
                                want_tid))

\* The slot search of A2's thread_create, from slot new_tid on.
RECURSIVE a2_create_find_tid(_, _)
a2_create_find_tid(m, new_tid) ==
    IF m.threads[new_tid].state = 0 THEN new_tid
    ELSE IF new_tid + 1 = THREAD_MAX_THREADS THEN THREAD_NOMORE
    ELSE a2_create_find_tid(m, new_tid + 1)

\* The block malloc369 returns for the stack of slot new_tid is named after
\* the slot; thread_stack keeps the pointer when the block is freed.
a2_thread_create(m, mem) ==
    LET enabled == m.interrupts_enabled
        m0 == [interrupts_off(m) EXCEPT
                 !.call = [op |-> "create", arg |-> NULL,
                           ret |-> THREAD_FAILED, returned |-> FALSE]]
        new_tid == a2_create_find_tid(m0, 0)
    IN  IF new_tid = THREAD_NOMORE THEN a2_return(m0, THREAD_NOMORE)
        ELSE LET m1 == [m0 EXCEPT !.threads[new_tid].state = 1,
                                  !.threads[new_tid].thread_stack =
                                      IF mem = "no_stack" THEN NULL
                                      ELSE new_tid]
             IN  IF mem = "no_stack" THEN a2_return(m1, THREAD_NOMEMORY)
                 ELSE LET m2 == [m1 EXCEPT !.threads[new_tid].context = "stub",
                                           !.threads[new_tid].want = NULL,
                                           !.threads[new_tid].enabled = FALSE]
                      IN  IF mem = "no_node"
                          THEN a2_return(
                                   [m2 EXCEPT !.threads[new_tid].state = 0],
                                   THREAD_NOMEMORY)
                          ELSE a2_return(
                                   interrupts_set(
                                       ready_enqueue(m2, new_tid, mem),
                                       enabled),
                                   new_tid)

a2_thread_kill(m, tid) ==
    LET enabled == m.interrupts_enabled
        m0 == [interrupts_off(m) EXCEPT
                 !.call = [op |-> "kill", arg |-> tid,
                           ret |-> THREAD_FAILED, returned |-> FALSE]]
    IN  IF \/ tid = m0.current_thread
           \/ tid \notin Tids
           \/ m0.threads[tid].state = 0
        THEN a2_return(interrupts_set(m0, enabled), THREAD_INVALID)
        ELSE a2_return(
                 interrupts_set([m0 EXCEPT !.threads[tid].state = 0], enabled),
                 tid)

(***************************************************************************)
(* A2/thread.c: wait queues. thread_sleep and thread_wakeup are written     *)
(* against a field next of struct thread and a function add_to_end(head,   *)
(* t); the rest of A2/thread.c keeps the ready queue in nodes and never    *)
(* sets that field. The list they follow from current_thread is read as    *)
(* the running thread followed by the ready queue.                          *)
(***************************************************************************)

\* The queue arguments of thread_sleep and thread_wakeup: NULL, or the handle
\* wait_queue_create returned.
QueueArgs == {NULL, 1}

\* The list that starts at current_thread.
a2_run_list(m) == <<m.current_thread>> \o m.ready

\* The position of the first x in s.
IndexIn(s, x) ==
    CHOOSE i \in 1 .. Len(s) : s[i] = x /\ \A j \in 1 .. (i - 1) : s[j] # x

\* The field next of every thread: its successor in the run list, or what
\* thread_sleep and thread_wakeup last stored in it.
a2_next(m) ==
    LET run == a2_run_list(m)
    IN  [t \in Tids |->
            IF t \in Range(run)
            THEN IF IndexIn(run, t) < Len(run)
                 THEN run[IndexIn(run, t) + 1] ELSE NULL
            ELSE m.wait_next[t]]

\* add_to_end(head, t): t goes behind the last thread of the list at head.
a2_add_to_end(nx, head, t) == add_to_end(nx, head, t)

\* Following next from head never ends.
Cyclic(nx, head) ==
    Len(ListFrom(nx, head, THREAD_MAX_THREADS + 1)) > THREAD_MAX_THREADS

\* The threads reached from queue->head.
a2_wait_queue(m) ==
    ListFrom(a2_next(m), m.wq_head, THREAD_MAX_THREADS + 1)

\* The lists once the next fields are nx and the running thread is cur: the
\* ready queue is what follows cur; the run list is "cyclic" when following
\* next from cur never ends.
a2_set_lists(m, nx, cur) ==
    LET run == ListFrom(nx, cur, THREAD_MAX_THREADS + 1)
        waiting == Range(ListFrom(nx, m.wq_head, THREAD_MAX_THREADS + 1))
        m1 == [m EXCEPT !.current_thread = cur,
                        !.ready = Tail(run),
                        !.wait_next =
                            [t \in Tids |->
                                IF t \in Range(run) \/ t \notin waiting
                                THEN NULL ELSE nx[t]]]
    IN  IF Len(run) > THREAD_MAX_THREADS
        THEN [m1 EXCEPT !.pc = "cyclic"] ELSE m1

\* thread_sleep from its getcontext on; nx holds the next fields and
\* new_head the local of that name.
a2_sleep_after_getcontext(m, nx, new_head) ==
    LET m1 == a2_free_stuff(m)
        c == m1.current_thread
    IN  IF m1.threads[c].state = 3
        THEN a2_thread_exit(a2_set_lists(m1, nx, c), 0)
        ELSE IF m1.threads[c].state = 2
        THEN a2_set_lists(
                 a2_return(
                     [interrupts_set(m1, m1.threads[c].enabled)
                         EXCEPT !.threads[c].state = 1,
                                !.threads[c].context = "stale",
                                !.threads[c].want = NULL,
                                !.threads[c].enabled = FALSE],
                     new_head),
                 nx, c)
        ELSE a2_set_lists(
                 a2_setcontext([m1 EXCEPT !.threads[c].state = 2,
                                          !.current_thread = new_head]),
                 nx, new_head)

\* thread_sleep that puts its caller in the wait queue before it looks for a
\* thread to run.
a2_thread_sleep_enqueue_first(m, queue) ==
    LET c == m.current_thread
        enabled == m.interrupts_enabled
        mc == [m EXCEPT !.call = [op |-> "sleep", arg |-> queue,
                                  ret |-> THREAD_FAILED, returned |-> FALSE]]
        m0 == interrupts_off(mc)
        nx == a2_next(m0)
        new_head == nx[c]
        nx1 == [nx EXCEPT ![c] = NULL]
    IN  IF queue = NULL THEN a2_return(mc, THREAD_INVALID)
        ELSE IF new_head = NULL
        THEN a2_return(
                 interrupts_set(
                     [m0 EXCEPT !.wq_head = IF @ = NULL THEN c ELSE @],
                     enabled),
                 THREAD_NONE)
        ELSE IF m0.wq_head # NULL /\ Cyclic(nx1, m0.wq_head)
        THEN [m0 EXCEPT !.pc = "hang"]
        ELSE a2_sleep_after_getcontext(
                 [m0 EXCEPT !.wq_head = IF @ = NULL THEN c ELSE @,
                            !.threads[c].context = "sleep",
                            !.threads[c].want = new_head,
                            !.threads[c].enabled = enabled],
                 IF m0.wq_head = NULL THEN nx1
                 ELSE a2_add_to_end(nx1, m0.wq_head, c),
                 new_head)

a2_thread_sleep(m, queue) ==
    LET c == m.current_thread
        enabled == m.interrupts_enabled
        mc == [m EXCEPT !.call = [op |-> "sleep", arg |-> queue,
                                  ret |-> THREAD_FAILED, returned |-> FALSE]]
        m0 == interrupts_off(mc)
        nx == a2_next(m0)
        new_head == nx[c]
        nx1 == [nx EXCEPT ![c] = NULL]
    IN  IF queue = NULL THEN a2_return(mc, THREAD_INVALID)
        ELSE IF new_head = NULL
        THEN a2_return(interrupts_set(m0, enabled), THREAD_NONE)
        ELSE IF m0.wq_head # NULL /\ Cyclic(nx1, m0.wq_head)
        THEN [m0 EXCEPT !.pc = "hang"]
        ELSE a2_sleep_after_getcontext(
                 [m0 EXCEPT !.wq_head = IF @ = NULL THEN c ELSE @,
                            !.threads[c].context = "sleep",
                            !.threads[c].want = new_head,
                            !.threads[c].enabled = enabled],
                 IF m0.wq_head = NULL THEN nx1
                 ELSE a2_add_to_end(nx1, m0.wq_head, c),
                 new_head)

a2_thread_wakeup(m, queue, all) ==
    LET c == m.current_thread
        enabled == m.interrupts_enabled
        mc == [m EXCEPT !.call = [op |-> "wakeup",
                                  arg |-> IF queue = NULL THEN NULL ELSE all,
                                  ret |-> THREAD_FAILED, returned |-> FALSE]]
        m0 == interrupts_off(mc)
        nx == a2_next(m0)
        head == m0.wq_head
    IN  IF queue = NULL \/ head = NULL THEN a2_return(mc, 0)
        ELSE IF all # 0
        THEN LET nx1 == a2_add_to_end(nx, c, head)
             IN  IF Cyclic(nx1, head) THEN [m0 EXCEPT !.pc = "hang"]
                 ELSE a2_set_lists(
                          a2_return(interrupts_set(m0, enabled),
                                    Len(ListFrom(nx1, head,
                                                 THREAD_MAX_THREADS + 1))),
                          nx1, c)
        ELSE LET new_head == nx[head]
                 nx1 == [nx EXCEPT ![head] = NULL]
                 nx2 == a2_add_to_end(nx1, c, head)
             IN  a2_set_lists(
                     a2_return(
                         interrupts_set([m0 EXCEPT !.wq_head = new_head],
                                        enabled),
                         1),
                     nx2, c)

(***************************************************************************)
(* A2/thread.c: thread_wait, locks and condition variables. Every function *)
(* is its assertions followed by TBD(); struct lock and struct cv have no  *)
(* field. A1/thread.c holds the same text.                                 *)
(***************************************************************************)

\* What the macro TBD() of an unimplemented function does: it returns having
\* done nothing, or it ends the process.
TBDOutcomes == {"returns", "stops"}

TBD(m, tbd) == IF tbd = "returns" THEN m ELSE [m EXCEPT !.pc = "stopped"]

\* The return statement, or the end of the body, behind TBD().
a2_return_behind_TBD(m, v) == IF m.pc = "stopped" THEN m ELSE a2_return(m, v)

\* The lock and cv arguments: NULL, or the handle lock_create or cv_create
\* returned.
HandleArgs == {NULL, 1}

\* thread_stub of A2 up to the call of the entry function.
a2_thread_stub(m) ==
    [a2_free_stuff(m) EXCEPT
        !.interrupts_enabled = TRUE,
        !.pc = "user",
        !.threads[m.current_thread].context = "stale",
        !.call = [op |-> "start", arg |-> NULL, ret |-> THREAD_FAILED,
                  returned |-> FALSE]]

\* thread_init, called with the timer signal not blocked.
A2Init ==
    /\ a2_current_thread = 0
    /\ threads = [t \in Tids |->
                    [state |-> IF t = 0 THEN 1 ELSE 0, context |-> "stale",
                     want |-> NULL, enabled |-> FALSE,
                     thread_stack |-> NULL, wakeup_all |-> NULL]]
    /\ ready = <<>>
    /\ a2_to_free_1 = NULL
    /\ a2_to_free_2 = NULL
    /\ wq_allocated = FALSE
    /\ wq_head = NULL
    /\ wait_next = [t \in Tids |-> NULL]
    /\ lock_allocated = FALSE
    /\ cv_allocated = FALSE
    /\ holding = {}
    /\ interrupts_enabled = TRUE
    /\ a2_pc = "call"
    /\ a2_exit_status = NULL
    /\ a2_call = NoCall
    /\ a2_kills = 0
    /\ a2_alloc_failures = 0

\* Whether an allocation of the call fails is the allocator's choice.
AllocFails(mem) ==
    /\ mem # "ok" => a2_alloc_failures < MaxAllocFailures
    /\ a2_alloc_failures' = a2_alloc_failures + (IF mem # "ok" THEN 1 ELSE 0)

A2ThreadCreate(mem) ==
    /\ a2_pc = "call"
    /\ Len(ready) < MaxReadyNodes
    /\ AllocFails(IF a2_create_find_tid(A2State, 0) = THREAD_NOMORE
                  THEN "ok" ELSE mem)
    /\ A2Set(a2_thread_create(A2State, mem))
    /\ UNCHANGED a2_kills

A2ThreadYield(want_tid, mem) ==
    /\ a2_pc = "call"
    /\ AllocFails(IF Len(a2_thread_yield(A2State, want_tid, "ok").ready)
                        = Len(a2_thread_yield(A2State, want_tid, mem).ready)
                  THEN "ok" ELSE mem)
    /\ A2Set(a2_thread_yield(A2State, want_tid, mem))
    /\ UNCHANGED a2_kills

A2ThreadKill(tid) ==
    /\ a2_pc = "call"
    /\ a2_kills < MaxKills
    /\ A2Set(a2_thread_kill(A2State, tid))
    /\ a2_kills' = a2_kills
                      + (IF a2_thread_kill(A2State, tid).call.ret = tid
                         THEN 1 ELSE 0)
    /\ UNCHANGED a2_alloc_failures

\* thread_exit called by user code, or by thread_stub when the entry
\* function returns (exit_code 0).
A2ThreadExit(exit_code) ==
    /\ a2_pc = "call"
    /\ A2Set(a2_thread_exit([A2State EXCEPT !.call =
                 [op |-> "exit", arg |-> exit_code,
                  ret |-> THREAD_FAILED, returned |-> FALSE]], exit_code))
    /\ UNCHANGED <<a2_kills, a2_alloc_failures>>

A2Resume ==
    LET a2_resume(m) ==
            LET c == m.current_thread
                m0 == [m EXCEPT !.call = [op |-> "resumed", arg |-> NULL,
                                          ret |-> THREAD_FAILED, returned |-> FALSE]]
            IN  IF m.threads[c].context = "stub" THEN a2_thread_stub(m)
                ELSE IF m.threads[c].context = "sleep"
                THEN a2_sleep_after_getcontext(m0, a2_next(m0), m0.threads[c].want)
                ELSE a2_yield_after_getcontext(m0)
    IN  /\ a2_pc = "resume"
        /\ A2Set(a2_resume(A2State))
        /\ UNCHANGED <<a2_kills, a2_alloc_failures>>

A2WaitQueueCreate(mem) ==
    LET a2_wait_queue_create(m) ==
            LET m0 == [m EXCEPT !.call = [op |-> "wait_queue_create", arg |-> NULL,
                                          ret |-> THREAD_FAILED, returned |-> FALSE]]
            IN  IF mem # "ok" THEN [m0 EXCEPT !.pc = "aborted"]
                ELSE a2_return([m0 EXCEPT !.wq_allocated = TRUE, !.wq_head = NULL],
                               1)
    IN  /\ a2_pc = "call"
        /\ ~wq_allocated
        /\ AllocFails(mem)
        /\ A2Set(a2_wait_queue_create(A2State))
        /\ UNCHANGED a2_kills

\* wait_queue_destroy on the handle wait_queue_create returned.
A2WaitQueueDestroy ==
    LET a2_wait_queue_destroy(m) ==
            LET m0 == [m EXCEPT !.call = [op |-> "wait_queue_destroy", arg |-> 1,
                                          ret |-> THREAD_FAILED, returned |-> FALSE]]
            IN  IF m0.wq_head # NULL THEN [m0 EXCEPT !.pc = "aborted"]
                ELSE a2_return([m0 EXCEPT !.wq_allocated = FALSE], 0)
    IN  /\ a2_pc = "call"
        /\ wq_allocated
        /\ A2Set(a2_wait_queue_destroy(A2State))
        /\ UNCHANGED <<a2_kills, a2_alloc_failures>>

A2ThreadSleep(queue) ==
    /\ a2_pc = "call"
    /\ queue # NULL => wq_allocated
    /\ A2Set(a2_thread_sleep(A2State, queue))
    /\ UNCHANGED <<a2_kills, a2_alloc_failures>>

A2ThreadWakeup(queue, all) ==
    /\ a2_pc = "call"
    /\ queue # NULL => wq_allocated
    /\ A2Set(a2_thread_wakeup(A2State, queue, all))
    /\ UNCHANGED <<a2_kills, a2_alloc_failures>>

A2ThreadWait(tid, tbd) ==
    LET a2_thread_wait(m) ==
            LET m0 == [m EXCEPT !.call = [op |-> "wait", arg |-> tid,
                                          ret |-> THREAD_FAILED, returned |-> FALSE]]
            IN  a2_return_behind_TBD(TBD(m0, tbd), 0)
    IN  /\ a2_pc = "call"
        /\ A2Set(a2_thread_wait(A2State))
        /\ UNCHANGED <<a2_kills, a2_alloc_failures>>

A2LockCreate(mem, tbd) ==
    LET a2_lock_create(m) ==
            LET m0 == [m EXCEPT !.call = [op |-> "lock_create", arg |-> NULL,
                                          ret |-> THREAD_FAILED, returned |-> FALSE]]
            IN  IF mem # "ok" THEN [m0 EXCEPT !.pc = "aborted"]
                ELSE a2_return_behind_TBD(
                         TBD([m0 EXCEPT !.lock_allocated = TRUE], tbd), 1)
    IN  /\ a2_pc = "call"
        /\ ~lock_allocated
        /\ AllocFails(mem)
        /\ A2Set(a2_lock_create(A2State))
        /\ UNCHANGED a2_kills

\* lock_acquire by a thread that does not hold the lock; when the call
\* returns, the caller is between lock_acquire and lock_release.
A2LockAcquire(lock, tbd) ==
    LET a2_lock_acquire(m) ==
            LET m0 == [m EXCEPT !.call = [op |-> "lock_acquire", arg |-> lock,
                                          ret |-> THREAD_FAILED, returned |-> FALSE]]
            IN  IF lock = NULL THEN [m0 EXCEPT !.pc = "aborted"]
                ELSE a2_return_behind_TBD(TBD(m0, tbd), NULL)
    IN  /\ a2_pc = "call"
        /\ lock # NULL => lock_allocated
        /\ a2_current_thread \notin holding
        /\ LET r == a2_lock_acquire(A2State)
           IN  A2Set([r EXCEPT !.holding = IF r.pc = "user"
                                           THEN @ \cup {a2_current_thread}
                                           ELSE @])
        /\ UNCHANGED <<a2_kills, a2_alloc_failures>>

\* lock_release by a thread that is between lock_acquire and lock_release.
A2LockRelease(lock, tbd) ==
    LET a2_lock_release(m) ==
            LET m0 == [m EXCEPT !.call = [op |-> "lock_release", arg |-> lock,
                                          ret |-> THREAD_FAILED, returned |-> FALSE]]
            IN  IF lock = NULL THEN [m0 EXCEPT !.pc = "aborted"]
                ELSE a2_return_behind_TBD(TBD(m0, tbd), NULL)
    IN  /\ a2_pc = "call"
        /\ lock # NULL => lock_allocated
        /\ a2_current_thread \in holding
        /\ LET r == a2_lock_release(A2State)
           IN  A2Set([r EXCEPT !.holding = @ \ {a2_current_thread}])
        /\ UNCHANGED <<a2_kills, a2_alloc_failures>>

A2CvCreate(mem, tbd) ==
    LET a2_cv_create(m) ==
            LET m0 == [m EXCEPT !.call = [op |-> "cv_create", arg |-> NULL,
                                          ret |-> THREAD_FAILED, returned |-> FALSE]]
            IN  IF mem # "ok" THEN [m0 EXCEPT !.pc = "aborted"]
                ELSE a2_return_behind_TBD(
                         TBD([m0 EXCEPT !.cv_allocated = TRUE], tbd), 1)
    IN  /\ a2_pc = "call"
        /\ ~cv_allocated
        /\ AllocFails(mem)
        /\ A2Set(a2_cv_create(A2State))
        /\ UNCHANGED a2_kills

\* cv_wait(cv, lock) by a thread that is between lock_acquire and
\* lock_release.
A2CvWait(cv, tbd) ==
    LET a2_cv_wait(m, lock) ==
            LET m0 == [m EXCEPT !.call = [op |-> "cv_wait", arg |-> cv,
                                          ret |-> THREAD_FAILED, returned |-> FALSE]]
            IN  IF cv = NULL \/ lock = NULL THEN [m0 EXCEPT !.pc = "aborted"]
                ELSE a2_return_behind_TBD(TBD(m0, tbd), NULL)
    IN  /\ a2_pc = "call"
        /\ lock_allocated
        /\ cv # NULL => cv_allocated
        /\ a2_current_thread \in holding
        /\ A2Set(a2_cv_wait(A2State, 1))
        /\ UNCHANGED <<a2_kills, a2_alloc_failures>>

A2CvSignal(cv, tbd) ==
    LET a2_cv_signal(m, lock) ==
            LET m0 == [m EXCEPT !.call = [op |-> "cv_signal", arg |-> cv,
                                          ret |-> THREAD_FAILED, returned |-> FALSE]]
            IN  IF cv = NULL \/ lock = NULL THEN [m0 EXCEPT !.pc = "aborted"]
                ELSE a2_return_behind_TBD(TBD(m0, tbd), NULL)
    IN  /\ a2_pc = "call"
        /\ lock_allocated
        /\ cv # NULL => cv_allocated
        /\ A2Set(a2_cv_signal(A2State, 1))
        /\ UNCHANGED <<a2_kills, a2_alloc_failures>>

A2CvBroadcast(cv, tbd) ==
    LET a2_cv_broadcast(m, lock) ==
            LET m0 == [m EXCEPT !.call = [op |-> "cv_broadcast", arg |-> cv,
                                          ret |-> THREAD_FAILED, returned |-> FALSE]]
            IN  IF cv = NULL \/ lock = NULL THEN [m0 EXCEPT !.pc = "aborted"]
                ELSE a2_return_behind_TBD(TBD(m0, tbd), NULL)
    IN  /\ a2_pc = "call"
        /\ lock_allocated
        /\ cv # NULL => cv_allocated
        /\ A2Set(a2_cv_broadcast(A2State, 1))
        /\ UNCHANGED <<a2_kills, a2_alloc_failures>>

\* The timer signal arrives while the running thread is in user code or
\* between the test and interrupts_off of thread_wakeup.
A2TimerInterrupt ==
    LET \* The handler of the timer signal, which is delivered only while
        \* interrupts are enabled: thread_yield(THREAD_ANY) on behalf of the running
        \* thread.
        a2_timer_interrupt(m) == a2_thread_yield(m, THREAD_ANY, "ok")
    IN  /\ a2_pc \in {"call", "wakeup_tested"}
        /\ interrupts_enabled
        /\ A2Set(a2_timer_interrupt(A2State))
        /\ UNCHANGED <<a2_kills, a2_alloc_failures>>

A2ThreadWakeupTest(queue, all) ==
    LET \* thread_wakeup up to its test of the queue, which it makes before it
        \* blocks the timer signal. A thread that goes on keeps the parameter all
        \* in its frame (wakeup_all, NULL in every thread that is not there).
        a2_wakeup_test(m) ==
            LET c == m.current_thread
                mc == [m EXCEPT !.call = [op |-> "wakeup",
                                          arg |-> IF queue = NULL THEN NULL ELSE all,
                                          ret |-> THREAD_FAILED, returned |-> FALSE]]
            IN  IF queue = NULL \/ mc.wq_head = NULL THEN a2_return(mc, 0)
                ELSE [mc EXCEPT !.pc = "wakeup_tested",
                                !.threads[c].wakeup_all = all]
    IN  /\ a2_pc = "call"
        /\ queue # NULL => wq_allocated
        /\ A2Set(a2_wakeup_test(A2State))
        /\ UNCHANGED <<a2_kills, a2_alloc_failures>>

A2ThreadWakeupAfterTest ==
    LET \* thread_wakeup from interrupts_off on. With an empty queue and all = 0 it
        \* reads queue->head->next through a null pointer; with all # 0 it appends
        \* nothing and counts no thread.
        a2_wakeup_after_test(m) ==
            LET c == m.current_thread
                all == m.threads[c].wakeup_all
                m0 == [m EXCEPT !.threads[c].wakeup_all = NULL,
                                !.call = [op |-> "wakeup", arg |-> all,
                                          ret |-> THREAD_FAILED, returned |-> FALSE]]
            IN  IF m0.wq_head # NULL THEN a2_thread_wakeup(m0, 1, all)
                ELSE IF all # 0 THEN a2_return(m0, 0)
                ELSE [interrupts_off(m0) EXCEPT !.pc = "undefined"]
    IN  /\ a2_pc = "wakeup_tested"
        /\ A2Set(a2_wakeup_after_test(A2State))
        /\ UNCHANGED <<a2_kills, a2_alloc_failures>>

\* The handler returns into the thread_wakeup it interrupted.
A2InterruptReturn ==
    /\ a2_pc = "user"
    /\ threads[a2_current_thread].wakeup_all # NULL
    /\ a2_pc' = "wakeup_tested"
    /\ UNCHANGED <<a2_current_thread, threads, ready, a2_to_free_1,
                   a2_to_free_2, wq_allocated, wq_head, wait_next,
                   lock_allocated, cv_allocated, holding,
                   interrupts_enabled, a2_exit_status, a2_call, a2_kills,
                   a2_alloc_failures>>
    /\ UNCHANGED outside_a2

A2UserCode ==
    /\ a2_pc = "user"
    /\ threads[a2_current_thread].wakeup_all = NULL
    /\ a2_pc' = "call"
    /\ a2_call' = NoCall
    /\ UNCHANGED <<a2_current_thread, threads, ready, a2_to_free_1,
                   a2_to_free_2, wq_allocated, wq_head, wait_next,
                   lock_allocated, cv_allocated, holding,
                   interrupts_enabled, a2_exit_status, a2_kills,
                   a2_alloc_failures>>
    /\ UNCHANGED outside_a2

(***************************************************************************)
(* T3/barrier.c                                                            *)
(***************************************************************************)

T3Threads == 0 .. (MaxNthreads - 1)

\* barrier() from the increment of line 99 to the broadcast or the wait, by
\* thread t holding the mutex: pthread_cond_broadcast empties the condition
\* variable, pthread_cond_wait releases the mutex and blocks t.
barrier_arrive(b, n, t) ==
    LET b1 == [b EXCEPT !.num_arrived = @ + 1]
    IN  IF b1.num_arrived = n
        THEN [b1 EXCEPT !.ready = FALSE, !.cv = {}]
        ELSE [b1 EXCEPT !.cv = @ \cup {t}, !.mutex = NULL]

\* The program once main has read its arguments and called barrier_init; h
\* is what the build made of the loop of line 95.
BarrierInit(n, p, h) ==
    /\ Nthreads = n
    /\ Nphases = p
    /\ spin_build = h
    /\ bar = [num_arrived |-> 0, ready |-> TRUE, mutex |-> NULL, cv |-> {}]
    /\ t3_pc = [t \in T3Threads |-> "unborn"]
    /\ t3_i = [t \in T3Threads |-> 0]
    /\ printed = [t \in T3Threads |-> 0]
    /\ main_pc = "create"
    /\ main_i = 0

\* The loop of line 95 has an empty body and reads bar.ready, a plain bool,
\* without the mutex while other threads write it: a data race. A build may
\* read bar.ready in every iteration ("reread"), read it once and then loop
\* forever if it was false ("once"), or take the loop to end and drop it
\* ("removed").
T3Init ==
    \E n \in 1 .. MaxNthreads, p \in 1 .. MaxNphases,
       h \in {"reread", "once", "removed"} :
        BarrierInit(n, p, h)

\* The barrier program while another program is the one observed.
T3Idle == BarrierInit(1, 1, "reread")

\* main, lines 163-167: pthread_create of thread main_i, or the end of the
\* loop.
MainCreate ==
    /\ main_pc = "create"
    /\ IF main_i < Nthreads
       THEN /\ t3_pc' = [t3_pc EXCEPT ![main_i] = "loop"]
            /\ main_i' = main_i + 1
            /\ UNCHANGED main_pc
       ELSE /\ main_pc' = "join"
            /\ main_i' = 0
            /\ UNCHANGED t3_pc
    /\ UNCHANGED <<Nthreads, Nphases, bar, spin_build, t3_i, printed>>
    /\ UNCHANGED outside_t3

\* main, lines 170-177: pthread_join returns once thread main_i has
\* returned; behind the loop main prints and returns.
MainJoin ==
    /\ main_pc = "join"
    /\ IF main_i < Nthreads
       THEN /\ t3_pc[main_i] = "returned"
            /\ main_i' = main_i + 1
            /\ UNCHANGED main_pc
       ELSE /\ main_pc' = "complete"
            /\ UNCHANGED main_i
    /\ UNCHANGED <<Nthreads, Nphases, bar, spin_build, t3_pc, t3_i, printed>>
    /\ UNCHANGED outside_t3

\* thread_func, lines 128-134: the test of the loop, then print_phase(me, i),
\* or print_done(me) and the return.
ThreadFuncLoop(t) ==
    /\ t3_pc[t] = "loop"
    /\ IF t3_i[t] < Nphases
       THEN /\ printed' = [printed EXCEPT ![t] = t3_i[t] + 1]
            /\ t3_pc' = [t3_pc EXCEPT ![t] = "spin"]
       ELSE /\ t3_pc' = [t3_pc EXCEPT ![t] = "returned"]
            /\ UNCHANGED printed
    /\ UNCHANGED <<Nthreads, Nphases, bar, spin_build, t3_i, main_pc, main_i>>
    /\ UNCHANGED outside_t3

\* barrier, lines 95-97: the loop ends when bar.ready is read as true. A
\* build that reads bar.ready once never leaves the loop it entered with
\* bar.ready false, and a build that dropped the loop does not wait.
BarrierSpin(t) ==
    /\ t3_pc[t] = "spin"
    /\ \/ /\ bar.ready \/ spin_build = "removed"
          /\ t3_pc' = [t3_pc EXCEPT ![t] = "lock"]
       \/ /\ ~bar.ready
          /\ spin_build = "once"
          /\ t3_pc' = [t3_pc EXCEPT ![t] = "hung"]
    /\ UNCHANGED <<Nthreads, Nphases, bar, spin_build, t3_i, printed, main_pc,
                   main_i>>
    /\ UNCHANGED outside_t3

\* barrier, line 98: mutex_lock.
BarrierLock(t) ==
    /\ t3_pc[t] = "lock"
    /\ bar.mutex = NULL
    /\ bar' = [bar EXCEPT !.mutex = t]
    /\ t3_pc' = [t3_pc EXCEPT ![t] = "arrive"]
    /\ UNCHANGED <<Nthreads, Nphases, spin_build, t3_i, printed, main_pc,
                   main_i>>
    /\ UNCHANGED outside_t3

\* barrier, lines 99-105: the last thread wakes the threads blocked in
\* pthread_cond_wait, which then need the mutex again; every other thread
\* blocks.
BarrierArrive(t) ==
    /\ t3_pc[t] = "arrive"
    /\ bar' = barrier_arrive(bar, Nthreads, t)
    /\ t3_pc' = [u \in T3Threads |->
                    IF u = t
                    THEN IF barrier_arrive(bar, Nthreads, t).mutex = t
                         THEN "leave" ELSE "waiting"
                    ELSE IF u \in bar.cv
                              /\ u \notin barrier_arrive(bar, Nthreads, t).cv
                    THEN "relock" ELSE t3_pc[u]]
    /\ UNCHANGED <<Nthreads, Nphases, spin_build, t3_i, printed, main_pc,
                   main_i>>
    /\ UNCHANGED outside_t3

\* pthread_cond_wait, line 104: the woken thread takes the mutex again.
BarrierRelock(t) ==
    /\ t3_pc[t] = "relock"
    /\ bar.mutex = NULL
    /\ bar' = [bar EXCEPT !.mutex = t]
    /\ t3_pc' = [t3_pc EXCEPT ![t] = "leave"]
    /\ UNCHANGED <<Nthreads, Nphases, spin_build, t3_i, printed, main_pc,
                   main_i>>
    /\ UNCHANGED outside_t3

\* barrier, lines 106-109.
BarrierLeave(t) ==
    LET \* barrier(), lines 106-109.
        barrier_leave(b) ==
            LET b1 == [b EXCEPT !.num_arrived = @ - 1]
            IN  IF b1.num_arrived = 0 THEN [b1 EXCEPT !.ready = TRUE] ELSE b1
    IN  /\ t3_pc[t] = "leave"
        /\ bar' = barrier_leave(bar)
        /\ t3_pc' = [t3_pc EXCEPT ![t] = "unlock"]
        /\ UNCHANGED <<Nthreads, Nphases, spin_build, t3_i, printed, main_pc,
                       main_i>>
        /\ UNCHANGED outside_t3

\* barrier, line 110, and the i++ of thread_func.
BarrierUnlock(t) ==
    /\ t3_pc[t] = "unlock"
    /\ bar' = [bar EXCEPT !.mutex = NULL]
    /\ t3_i' = [t3_i EXCEPT ![t] = @ + 1]
    /\ t3_pc' = [t3_pc EXCEPT ![t] = "loop"]
    /\ UNCHANGED <<Nthreads, Nphases, spin_build, printed, main_pc, main_i>>
    /\ UNCHANGED outside_t3

\* One step of thread t.
ThreadFunc(t) ==
    \/ ThreadFuncLoop(t)
    \/ BarrierSpin(t)
    \/ BarrierLock(t)
    \/ BarrierArrive(t)
    \/ BarrierRelock(t)
    \/ BarrierLeave(t)
    \/ BarrierUnlock(t)

(***************************************************************************)
(* A4/vsfs.c: the operations on a mounted image that holds the root        *)
(* directory and regular files. The fields i_mode, i_nlink and i_mtime of  *)
(* an inode are not part of the model.                                     *)
(***************************************************************************)

\* The cells of a block: a cell holds one byte of file data or, in an
\* indirect block, one block number (sizeof(vsfs_blk_t) is one cell).
Cells == 0 .. (VSFS_BLOCK_SIZE - 1)
IndirectEntries == VSFS_BLOCK_SIZE
Blocks == 0 .. (sb_num_blocks - 1)
Inodes == 0 .. (sb_num_inodes - 1)
\* The entries of a directory block, and the names the callers pass.
DentriesPerBlock == VSFS_BLOCK_SIZE \div DentrySize
Names == 1 .. MaxNames
\* The sizes and offsets the callers pass: every size up to one byte more
\* than the largest size a file can have.
FileSizes == 0 .. ((VSFS_NUM_DIRECT + IndirectEntries) * VSFS_BLOCK_SIZE + 1)

\* The mounted file system as one value.
FsState ==
    [sb_free_blocks |-> sb_free_blocks, sb_free_inodes |-> sb_free_inodes,
     dbmap |-> dbmap, ibmap |-> ibmap, itable |-> itable, image |-> image,
     pc |-> fs_pc]

FsSet(fs, c) ==
    /\ sb_free_blocks' = fs.sb_free_blocks
    /\ sb_free_inodes' = fs.sb_free_inodes
    /\ dbmap' = fs.dbmap
    /\ ibmap' = fs.ibmap
    /\ itable' = fs.itable
    /\ image' = fs.image
    /\ fs_pc' = fs.pc
    /\ fs_call' = c

div_round_up(x, y) == (x + y - 1) \div y

\* bitmap_alloc sets the first clear bit and stores its index; when no bit
\* is clear it fails and stores nothing.
bitmap_alloc(map) ==
    IF \E b \in DOMAIN map : ~map[b]
    THEN LET index == CHOOSE b \in DOMAIN map :
                          ~map[b] /\ \A c \in DOMAIN map : ~map[c] => b <= c
         IN [ok |-> TRUE, map |-> [map EXCEPT ![index] = TRUE],
             index |-> index]
    ELSE [ok |-> FALSE, map |-> map, index |-> NULL]

\* bitmap_free clears bit index of a bitmap of nbits bits, and asserts that
\* the bitmap has such a bit.
bitmap_free(fs, nbits, index) ==
    IF index \notin 0 .. (nbits - 1) \/ index \notin DOMAIN fs.dbmap
    THEN [fs EXCEPT !.pc = "aborted"]
    ELSE [fs EXCEPT !.dbmap[index] = FALSE]

\* bitmap_free on the inode bitmap.
bitmap_free_inode(fs, nbits, index) ==
    IF index \notin 0 .. (nbits - 1) \/ index \notin DOMAIN fs.ibmap
    THEN [fs EXCEPT !.pc = "aborted"]
    ELSE [fs EXCEPT !.ibmap[index] = FALSE]

\* Cell c of block blk, read through fs->image + blk * VSFS_BLOCK_SIZE. The
\* model does not hold the bytes outside the image.
load(fs, blk, c) ==
    IF blk \in Blocks THEN fs.image[blk][c] ELSE Indeterminate

\* A store of the cells of block blk through fs->image + blk *
\* VSFS_BLOCK_SIZE. The model does not follow a run beyond a store outside
\* the data region: the store overwrites the superblock, a bitmap or the
\* inode table, or memory outside the image.
store_block(fs, blk, cells) ==
    IF blk \in Blocks /\ blk >= sb_data_region
    THEN [fs EXCEPT !.image[blk] = cells]
    ELSE [fs EXCEPT !.pc = "corrupted"]

store(fs, blk, c, v) ==
    store_block(fs, blk, [d \in Cells |-> IF d = c THEN v ELSE load(fs, blk, d)])

\* Whether a block number stored in an inode or an indirect block names a
\* block (the test of lines 123, 135, 140 and others).
valid_block(blk) == blk >= sb_data_region /\ blk < VSFS_BLK_MAX

\* The valid block numbers among entries n and later of entries, in order.
RECURSIVE valid_blocks(_, _)
valid_blocks(entries, n) ==
    IF n \notin DOMAIN entries
    THEN << >>
    ELSE IF valid_block(entries[n])
         THEN <<entries[n]>> \o valid_blocks(entries, n + 1)
         ELSE valid_blocks(entries, n + 1)

\* The blocks of the root directory in the order in which path_lookup and
\* vsfs_unlink search them: the direct blocks, then the blocks listed in
\* the indirect block.
root_blocks(fs) ==
    LET root_ino == fs.itable[VSFS_ROOT_INO]
    IN valid_blocks(root_ino.i_direct, 0)
       \o (IF valid_block(root_ino.i_indirect)
           THEN valid_blocks([n \in 0 .. (IndirectEntries - 1) |->
                                 load(fs, root_ino.i_indirect, n)], 0)
           ELSE << >>)

\* The places of the directory entries of a sequence of blocks, in order:
\* [blk, ino, name] gives the block and the cells of the two fields.
dentries_of(blks) ==
    [k \in 1 .. (Len(blks) * DentriesPerBlock) |->
        [blk |-> blks[((k - 1) \div DentriesPerBlock) + 1],
         ino |-> ((k - 1) % DentriesPerBlock) * DentrySize,
         name |-> ((k - 1) % DentriesPerBlock) * DentrySize + 1]]

\* The index in ds of the first entry from place k on that is named name,
\* or 0.
RECURSIVE find_dentry(_, _, _, _)
find_dentry(fs, ds, k, name) ==
    IF k > Len(ds)
    THEN 0
    ELSE IF load(fs, ds[k].blk, ds[k].name) = name
         THEN k
         ELSE find_dentry(fs, ds, k + 1, name)

\* path_lookup of the path "/" followed by name.
path_lookup(fs, name) ==
    LET ds == dentries_of(root_blocks(fs))
        k == find_dentry(fs, ds, 1, name)
    IN IF k = 0
       THEN [ret |-> -ENOENT, ino |-> NULL]
       ELSE [ret |-> 0, ino |-> load(fs, ds[k].blk, ds[k].ino)]

\* A call whose path_lookup stores an inode number that the inode table
\* does not have works on memory outside the table: the model does not
\* follow it.
wild_inode(fs) == [fs |-> [fs EXCEPT !.pc = "corrupted"], ret |-> 0]

\* The loop of lines 633-652 from block i on. junk is what the
\* uninitialised blk holds when bitmap_alloc fails.
RECURSIVE truncate_add_blocks(_, _, _, _, _)
truncate_add_blocks(fs, ino, i, new_blocks, junk) ==
    IF i >= new_blocks
    THEN fs
    ELSE LET a == bitmap_alloc(fs.dbmap)
             blk == IF a.ok THEN a.index ELSE junk
             fs1 == [fs EXCEPT !.dbmap = a.map]
             i_indirect == fs1.itable[ino].i_indirect
             b == bitmap_alloc(fs1.dbmap)
             fs2 ==
                 IF i >= VSFS_NUM_DIRECT
                 THEN IF \/ i_indirect < sb_data_region
                         \/ i_indirect >= VSFS_BLK_MAX
                      THEN [fs1 EXCEPT
                               !.dbmap = b.map,
                               !.itable[ino].i_indirect =
                                   IF b.ok THEN b.index ELSE @,
                               !.sb_free_blocks = (@ - 1) % Uint32Values]
                      ELSE fs1
                 ELSE fs1
             fs3 ==
                 IF i >= VSFS_NUM_DIRECT
                 THEN store(fs2, fs2.itable[ino].i_indirect,
                            i - VSFS_NUM_DIRECT, blk)
                 ELSE [fs2 EXCEPT !.itable[ino].i_direct[i] = blk]
             fs4 == [store_block(fs3, blk, [c \in Cells |-> 0])
                     EXCEPT !.sb_free_blocks = (@ - 1) % Uint32Values]
         IN truncate_add_blocks(fs4, ino, i + 1, new_blocks, junk)

\* The loop of lines 655-665 from block i on.
RECURSIVE truncate_remove_blocks(_, _, _, _)
truncate_remove_blocks(fs, ino, i, cur_blocks) ==
    IF i >= cur_blocks
    THEN fs
    ELSE LET i_indirect == fs.itable[ino].i_indirect
             fs1 ==
                 IF i >= VSFS_NUM_DIRECT
                 THEN store(bitmap_free(fs, sb_num_blocks,
                                load(fs, i_indirect, i - VSFS_NUM_DIRECT)),
                            i_indirect, i - VSFS_NUM_DIRECT,
                            VSFS_BLK_UNASSIGNED)
                 ELSE [bitmap_free(fs, sb_num_blocks,
                           fs.itable[ino].i_direct[i])
                       EXCEPT !.itable[ino].i_direct[i] =
                                  VSFS_BLK_UNASSIGNED]
             fs2 == [fs1 EXCEPT !.sb_free_blocks = (@ + 1) % Uint32Values]
         IN truncate_remove_blocks(fs2, ino, i + 1, cur_blocks)

\* vsfs_truncate(path, size): the file system it leaves and what it returns.
vsfs_truncate(fs, name, size, junk) ==
    LET ino == path_lookup(fs, name).ino
        inode == fs.itable[ino]
        new_blocks == div_round_up(size, VSFS_BLOCK_SIZE)
        cur_blocks == div_round_up(inode.i_size, VSFS_BLOCK_SIZE)
        resized(f) ==
            [fs |-> [f EXCEPT !.itable[ino].i_blocks = new_blocks,
                              !.itable[ino].i_size = size],
             ret |-> 0]
    IN IF ino \notin Inodes
       THEN wild_inode(fs)
       ELSE IF new_blocks > cur_blocks
       THEN IF new_blocks > VSFS_NUM_DIRECT + IndirectEntries
            THEN [fs |-> fs, ret |-> -EFBIG]
            ELSE IF new_blocks - cur_blocks > fs.sb_free_blocks
            THEN [fs |-> fs, ret |-> -ENOSPC]
            ELSE resized(truncate_add_blocks(fs, ino, cur_blocks,
                                             new_blocks, junk))
       ELSE IF new_blocks < cur_blocks
       THEN LET fs1 == truncate_remove_blocks(fs, ino, new_blocks,
                                              cur_blocks)
                i_indirect == fs1.itable[ino].i_indirect
            IN IF i_indirect # 0 /\ new_blocks < VSFS_NUM_DIRECT
               THEN resized([bitmap_free(fs1, sb_num_inodes, i_indirect)
                             EXCEPT !.itable[ino].i_indirect = 0,
                                    !.sb_free_blocks = (@ + 1) % Uint32Values])
               ELSE resized(fs1)
       ELSE resized(fs)

\* The block that lines 725-741 and 795-801 find for block_index of the
\* file.
file_block(fs, ino, block_index) ==
    LET inode == fs.itable[ino]
    IN IF block_index < VSFS_NUM_DIRECT
       THEN inode.i_direct[block_index]
       ELSE load(fs, inode.i_indirect, block_index - VSFS_NUM_DIRECT)

\* The byte vsfs_read stores in buf for the byte at offset of the file
\* (offset < i_size): Indeterminate when it stores nothing.
read_byte(fs, ino, offset) ==
    LET inode == fs.itable[ino]
        block_index == offset \div VSFS_BLOCK_SIZE
        block_offset == offset % VSFS_BLOCK_SIZE
    IN IF block_index >= VSFS_NUM_DIRECT /\ inode.i_indirect = 0
       THEN Indeterminate
       ELSE IF file_block(fs, ino, block_index) = VSFS_BLK_UNASSIGNED
            THEN 0
            ELSE load(fs, file_block(fs, ino, block_index), block_offset)

\* vsfs_read(path, buf, size, offset): what it returns and the bytes of buf.
vsfs_read(fs, name, size, offset) ==
    LET ino == path_lookup(fs, name).ino
        inode == fs.itable[ino]
        n == IF offset + size > inode.i_size
             THEN inode.i_size - offset
             ELSE size
    IN IF ino \notin Inodes
       THEN [ret |-> 0, buf |-> << >>]
       ELSE IF offset >= inode.i_size
       THEN [ret |-> 0, buf |-> << >>]
       ELSE [ret |-> n,
             buf |-> [k \in 1 .. n |-> read_byte(fs, ino, offset + k - 1)]]

\* vsfs_write(path, buf, size, offset): the file system it leaves and what
\* it returns. byte is the value of every byte of buf.
vsfs_write(fs, name, byte, size, offset, junk) ==
    LET ino == path_lookup(fs, name).ino
        t == IF offset + size > fs.itable[ino].i_size
             THEN vsfs_truncate(fs, name, offset + size, junk)
             ELSE [fs |-> fs, ret |-> 0]
        block_index == offset \div VSFS_BLOCK_SIZE
        block_offset == offset % VSFS_BLOCK_SIZE
        blk == file_block(t.fs, ino, block_index)
    IN IF ino \notin Inodes
       THEN wild_inode(fs)
       ELSE IF t.ret # 0
       THEN t
       ELSE [fs |-> store_block(t.fs, blk,
                        [c \in Cells |->
                            IF c >= block_offset /\ c < block_offset + size
                            THEN byte
                            ELSE load(t.fs, blk, c)]),
             ret |-> size]

\* The label out of vsfs_create: the inode is given back.
create_out(fs, index) ==
    [fs |-> [bitmap_free_inode(fs, sb_num_inodes, index)
             EXCEPT !.sb_free_inodes = (@ + 1) % Uint32Values],
     ret |-> -ENOSPC]

\* vsfs_create after bitmap_alloc has stored the number of a new directory
\* block in i_direct[n] of the root directory (direct, lines 374-381) or in
\* entry n of its indirect block (lines 415-422): the block is zeroed, the
\* counters change, and the inode number of every entry of the block that
\* the same place then names is set to VSFS_INO_MAX.
create_directory_block(fs, direct, n) ==
    LET blk(f) == IF direct
                  THEN f.itable[VSFS_ROOT_INO].i_direct[n]
                  ELSE load(f, f.itable[VSFS_ROOT_INO].i_indirect, n)
        fs1 == store_block(fs, blk(fs), [c \in Cells |-> 0])
        fs2 == [fs1 EXCEPT
                   !.sb_free_blocks = (@ - 1) % Uint32Values,
                   !.itable[VSFS_ROOT_INO].i_size = @ + VSFS_BLOCK_SIZE,
                   !.itable[VSFS_ROOT_INO].i_blocks = @ + 1]
    IN store_block(fs2, blk(fs2),
           [c \in Cells |->
               IF c % DentrySize = 0 /\ c \div DentrySize < DentriesPerBlock
               THEN VSFS_INO_MAX
               ELSE load(fs2, blk(fs2), c)])

\* The entries of block blk whose inode number is VSFS_INO_MAX.
free_dentries(fs, blk) ==
    {i \in 0 .. (DentriesPerBlock - 1) :
        load(fs, blk, i * DentrySize) = VSFS_INO_MAX}

\* The loops of lines 384-391 and 425-432 once they have found a free entry
\* in block blk: the first one takes the inode and the name.
create_dentry(fs, blk, index, name) ==
    LET i == CHOOSE i \in free_dentries(fs, blk) :
                 \A j \in free_dentries(fs, blk) : i <= j
    IN store(store(fs, blk, i * DentrySize, index),
             blk, i * DentrySize + 1, name)

\* The loop of lines 409-433 from entry n of the indirect block on.
RECURSIVE create_indirect_entries(_, _, _, _)
create_indirect_entries(fs, n, index, name) ==
    LET i_indirect == fs.itable[VSFS_ROOT_INO].i_indirect
        entry(f) == load(f, i_indirect, n)
        a == bitmap_alloc(fs.dbmap)
        fs1 == IF entry(fs) = 0
               THEN create_directory_block(
                        store([fs EXCEPT !.dbmap = a.map],
                              i_indirect, n, a.index),
                        FALSE, n)
               ELSE fs
    IN IF n >= IndirectEntries
       THEN create_out(fs, index)
       ELSE IF entry(fs) = 0 /\ ~a.ok
       THEN create_out(fs, index)
       ELSE IF free_dentries(fs1, entry(fs1)) # {}
       THEN [fs |-> create_dentry(fs1, entry(fs1), index, name), ret |-> 0]
       ELSE create_indirect_entries(fs1, n + 1, index, name)

\* Lines 398-433: the indirect block of the root directory.
create_indirect(fs, index, name) ==
    LET a == bitmap_alloc(fs.dbmap)
    IN IF valid_block(fs.itable[VSFS_ROOT_INO].i_indirect)
       THEN create_indirect_entries(fs, 0, index, name)
       ELSE IF ~a.ok
       THEN create_out(fs, index)
       ELSE create_indirect_entries(
                [store_block(
                     [fs EXCEPT !.dbmap = a.map,
                                !.itable[VSFS_ROOT_INO].i_indirect = a.index],
                     a.index, [c \in Cells |-> 0])
                 EXCEPT !.sb_free_blocks = (@ - 1) % Uint32Values],
                0, index, name)

\* The loop of lines 368-392 from direct block n of the root directory on.
RECURSIVE create_direct(_, _, _, _)
create_direct(fs, n, index, name) ==
    LET a == bitmap_alloc(fs.dbmap)
        entry(f) == f.itable[VSFS_ROOT_INO].i_direct[n]
        fs1 == IF entry(fs) = 0
               THEN create_directory_block(
                        [fs EXCEPT !.dbmap = a.map,
                                   !.itable[VSFS_ROOT_INO].i_direct[n] =
                                       a.index],
                        TRUE, n)
               ELSE fs
    IN IF n >= VSFS_NUM_DIRECT
       THEN create_indirect(fs, index, name)
       ELSE IF entry(fs) = 0 /\ ~a.ok
       THEN create_out(fs, index)
       ELSE IF free_dentries(fs1, entry(fs1)) # {}
       THEN [fs |-> create_dentry(fs1, entry(fs1), index, name), ret |-> 0]
       ELSE create_direct(fs1, n + 1, index, name)

\* vsfs_create(path, mode, fi): the file system it leaves and what it
\* returns.
vsfs_create(fs, name) ==
    LET a == bitmap_alloc(fs.ibmap)
    IN IF ~a.ok
       THEN [fs |-> fs, ret |-> -ENOSPC]
       ELSE create_direct(
                [fs EXCEPT !.ibmap = a.map,
                           !.sb_free_inodes = (@ - 1) % Uint32Values,
                           !.itable[a.index].i_size = 0,
                           !.itable[a.index].i_blocks = 0],
                0, a.index, name)

\* The loop of lines 511-516 from direct block n of the removed inode on.
RECURSIVE unlink_direct(_, _, _)
unlink_direct(fs, to_free, n) ==
    IF n >= VSFS_NUM_DIRECT
    THEN fs
    ELSE IF fs.itable[to_free].i_direct[n] # 0
    THEN unlink_direct(
             [bitmap_free(fs, sb_num_blocks, fs.itable[to_free].i_direct[n])
              EXCEPT !.sb_free_blocks = (@ + 1) % Uint32Values],
             to_free, n + 1)
    ELSE unlink_direct(fs, to_free, n + 1)

\* The loop of lines 521-526 from entry n of the indirect block of the root
\* directory on.
RECURSIVE unlink_indirect_entries(_, _)
unlink_indirect_entries(fs, n) ==
    LET entry == load(fs, fs.itable[VSFS_ROOT_INO].i_indirect, n)
    IN IF n >= IndirectEntries
       THEN fs
       ELSE IF valid_block(entry)
       THEN unlink_indirect_entries(
                [bitmap_free(fs, sb_num_blocks, entry)
                 EXCEPT !.sb_free_blocks = (@ + 1) % Uint32Values],
                n + 1)
       ELSE unlink_indirect_entries(fs, n + 1)

\* Lines 509-531 of vsfs_unlink: the blocks it frees for inode to_free.
unlink_inode(fs, to_free) ==
    LET fs1 == unlink_direct(fs, to_free, 0)
        i_indirect == fs1.itable[VSFS_ROOT_INO].i_indirect
    IN IF valid_block(i_indirect)
       THEN [bitmap_free(unlink_indirect_entries(fs1, 0),
                         sb_num_blocks, i_indirect)
             EXCEPT !.sb_free_blocks = (@ + 1) % Uint32Values]
       ELSE fs1

\* vsfs_unlink(path): the file system it leaves and what it returns.
vsfs_unlink(fs, name) ==
    LET ds == dentries_of(root_blocks(fs))
        k == find_dentry(fs, ds, 1, name)
        to_free == load(fs, ds[k].blk, ds[k].ino)
        fs1 == bitmap_free_inode(store(fs, ds[k].blk, ds[k].name, 0),
                                 sb_num_inodes, to_free)
        fs2 == store([fs1 EXCEPT !.sb_free_inodes = (@ + 1) % Uint32Values],
                     ds[k].blk, ds[k].ino, VSFS_INO_MAX)
    IN IF k = 0
       THEN [fs |-> fs, ret |-> 0]
       ELSE IF fs1.pc # "run"
       THEN [fs |-> fs1, ret |-> 0]
       ELSE [fs |-> unlink_inode(fs2, to_free), ret |-> 0]

\* The image after mkfs and the creation of the file: the blocks below the
\* data region and the block of the root directory are in use, the
\* directory holds the entry of the file, the file is empty.
A4Init ==
    /\ dbmap = [b \in Blocks |-> b <= sb_data_region]
    /\ sb_free_blocks = sb_num_blocks - sb_data_region - 1
    /\ ibmap = [i \in Inodes |-> i \in {VSFS_ROOT_INO, FileIno}]
    /\ sb_free_inodes = sb_num_inodes - 2
    /\ fs_calls = 0
    /\ itable =
           [ino \in Inodes |->
               [i_size |-> IF ino = VSFS_ROOT_INO THEN VSFS_BLOCK_SIZE ELSE 0,
                i_blocks |-> IF ino = VSFS_ROOT_INO THEN 1 ELSE 0,
                i_direct |-> [n \in 0 .. (VSFS_NUM_DIRECT - 1) |->
                                 IF ino = VSFS_ROOT_INO /\ n = 0
                                 THEN sb_data_region
                                 ELSE VSFS_BLK_UNASSIGNED],
                i_indirect |-> 0]]
    /\ image = [b \in Blocks |->
                   [c \in Cells |->
                       IF b # sb_data_region THEN 0
                       ELSE IF c = 0 THEN FileIno
                       ELSE IF c = 1 THEN FileName
                       ELSE IF c % DentrySize = 0 THEN VSFS_INO_MAX
                       ELSE 0]]
    /\ fs_pc = "run"
    /\ fs_call = [op |-> "mount", name |-> 0, size |-> 0, offset |-> 0,
                  old_size |-> 0, ret |-> 0, buf |-> << >>]

\* The values of blk after a failed bitmap_alloc that a call is run with:
\* every block when the bitmap cannot serve the call, none otherwise.
JunkBlocks(fs, ino, size) ==
    LET cur_blocks == div_round_up(fs.itable[ino].i_size, VSFS_BLOCK_SIZE)
        new_blocks == div_round_up(size, VSFS_BLOCK_SIZE)
        free == Cardinality({b \in Blocks : ~fs.dbmap[b]})
    IN IF ino \in Inodes /\ new_blocks > cur_blocks
          /\ new_blocks - cur_blocks + 1 > free
       THEN Blocks
       ELSE {0}

\* What fs_call records of a call on the file named name.
FsCall(op, name, size, offset, ret, buf) ==
    [op |-> op, name |-> name, size |-> size, offset |-> offset,
     old_size |-> IF path_lookup(FsState, name).ino \in Inodes
                  THEN itable[path_lookup(FsState, name).ino].i_size
                  ELSE 0,
     ret |-> ret, buf |-> buf]

\* The callers have verified that the path of a vsfs_truncate, vsfs_read or
\* vsfs_write call exists.
VsfsTruncate(name, size) ==
    /\ fs_pc = "run"
    /\ fs_calls < MaxCalls
    /\ path_lookup(FsState, name).ret = 0
    /\ \E junk \in JunkBlocks(FsState, path_lookup(FsState, name).ino, size) :
          LET r == vsfs_truncate(FsState, name, size, junk)
          IN FsSet(r.fs, FsCall("truncate", name, size, 0, r.ret, << >>))
    /\ fs_calls' = fs_calls + 1
    /\ UNCHANGED outside_a4

VsfsWrite(name, size, offset) ==
    /\ fs_pc = "run"
    /\ fs_calls < MaxCalls
    /\ path_lookup(FsState, name).ret = 0
    /\ size >= 1
    /\ (offset % VSFS_BLOCK_SIZE) + size <= VSFS_BLOCK_SIZE
    /\ \E junk \in JunkBlocks(FsState, path_lookup(FsState, name).ino,
                              offset + size) :
          LET r == vsfs_write(FsState, name, 1, size, offset, junk)
          IN FsSet(r.fs, FsCall("write", name, size, offset, r.ret, << >>))
    /\ fs_calls' = fs_calls + 1
    /\ UNCHANGED outside_a4

VsfsRead(name, size, offset) ==
    /\ fs_pc = "run"
    /\ fs_calls < MaxCalls
    /\ path_lookup(FsState, name).ret = 0
    /\ size >= 1
    /\ (offset % VSFS_BLOCK_SIZE) + size <= VSFS_BLOCK_SIZE
    /\ LET r == vsfs_read(FsState, name, size, offset)
       IN fs_call' = FsCall("read", name, size, offset, r.ret, r.buf)
    /\ fs_calls' = fs_calls + 1
    /\ UNCHANGED <<sb_free_blocks, sb_free_inodes, dbmap, ibmap, itable, image,
                   fs_pc>>
    /\ UNCHANGED outside_a4

\* The callers have verified that the path of a vsfs_create call does not
\* exist.
VsfsCreate(name) ==
    /\ fs_pc = "run"
    /\ fs_calls < MaxCalls
    /\ path_lookup(FsState, name).ret # 0
    /\ LET r == vsfs_create(FsState, name)
       IN FsSet(r.fs, FsCall("create", name, 0, 0, r.ret, << >>))
    /\ fs_calls' = fs_calls + 1
    /\ UNCHANGED outside_a4

VsfsUnlink(name) ==
    /\ fs_pc = "run"
    /\ fs_calls < MaxCalls
    /\ path_lookup(FsState, name).ret = 0
    /\ LET r == vsfs_unlink(FsState, name)
       IN FsSet(r.fs, FsCall("unlink", name, 0, 0, r.ret, << >>))
    /\ fs_calls' = fs_calls + 1
    /\ UNCHANGED outside_a4

\* The A1 runtime under every sequence of calls.
A1Next ==
    \/ UserCode
    \/ \E mem \in {"ok", "no_block", "no_stack"} : ThreadCreate(mem)
    \/ \E want_tid \in YieldArgs : ThreadYield(want_tid)
    \/ \E tid \in KillArgs : ThreadKill(tid)
    \/ \E exit_code \in ExitCodes : ThreadExit(exit_code)
    \/ Resume

\* Every program starts initialised; the actions of a specification say
\* which of them takes steps. The barrier program has its own initial
\* states when it is the one that runs.
InitPrograms == A1Init /\ A2Init /\ T3Idle /\ A4Init

SpecA1 == InitPrograms /\ [][A1Next]_vars

\* The table runtime of A2 under every sequence of calls.
A2Next ==
    \/ A2UserCode
    \/ \E mem \in {"ok", "no_stack", "no_node"} : A2ThreadCreate(mem)
    \/ \E want_tid \in YieldArgs, mem \in {"ok", "no_node"} :
            A2ThreadYield(want_tid, mem)
    \/ \E tid \in KillArgs : A2ThreadKill(tid)
    \/ \E exit_code \in ExitCodes : A2ThreadExit(exit_code)
    \/ A2Resume

SpecA2 == InitPrograms /\ [][A2Next]_vars

\* The A2 runtime with wait queues, under every sequence of calls in which no
\* allocation fails and no thread is killed or exits.
A2WaitNext ==
    \/ A2UserCode
    \/ A2ThreadCreate("ok")
    \/ \E want_tid \in YieldArgs : A2ThreadYield(want_tid, "ok")
    \/ A2Resume
    \/ A2WaitQueueCreate("ok")
    \/ A2WaitQueueDestroy
    \/ \E queue \in QueueArgs : A2ThreadSleep(queue)
    \/ \E queue \in QueueArgs, all \in {0, 1} : A2ThreadWakeup(queue, all)

SpecA2Wait == InitPrograms /\ [][A2WaitNext]_vars

\* The A2 runtime with thread_wait, one lock and one condition variable,
\* under every sequence of calls in which no allocation fails and no thread
\* is killed or exits.
A2SyncNext ==
    \/ A2UserCode
    \/ A2ThreadCreate("ok")
    \/ \E want_tid \in YieldArgs : A2ThreadYield(want_tid, "ok")
    \/ A2Resume
    \/ \E tid \in KillArgs, tbd \in TBDOutcomes : A2ThreadWait(tid, tbd)
    \/ \E tbd \in TBDOutcomes : A2LockCreate("ok", tbd)
    \/ \E lock \in HandleArgs, tbd \in TBDOutcomes : A2LockAcquire(lock, tbd)
    \/ \E lock \in HandleArgs, tbd \in TBDOutcomes : A2LockRelease(lock, tbd)
    \/ \E tbd \in TBDOutcomes : A2CvCreate("ok", tbd)
    \/ \E cv \in HandleArgs, tbd \in TBDOutcomes : A2CvWait(cv, tbd)
    \/ \E cv \in HandleArgs, tbd \in TBDOutcomes : A2CvSignal(cv, tbd)
    \/ \E cv \in HandleArgs, tbd \in TBDOutcomes : A2CvBroadcast(cv, tbd)

\* The A2 runtime with wait queues under timer interrupts: thread_wakeup in
\* its two parts, waking one thread.
A2PreemptNext ==
    \/ A2UserCode
    \/ A2ThreadCreate("ok")
    \/ A2Resume
    \/ A2WaitQueueCreate("ok")
    \/ A2ThreadSleep(1)
    \/ A2ThreadWakeupTest(1, 0)
    \/ A2ThreadWakeupAfterTest
    \/ A2TimerInterrupt
    \/ A2InterruptReturn

SpecA2Preempt == InitPrograms /\ [][A2PreemptNext]_vars

SpecA2Sync == InitPrograms /\ [][A2SyncNext]_vars

\* The barrier program under every interleaving of main and its threads.
T3Next ==
    \/ MainCreate
    \/ MainJoin
    \/ \E t \in T3Threads : ThreadFuncLoop(t)
    \/ \E t \in T3Threads : BarrierSpin(t)
    \/ \E t \in T3Threads : BarrierLock(t)
    \/ \E t \in T3Threads : BarrierArrive(t)
    \/ \E t \in T3Threads : BarrierRelock(t)
    \/ \E t \in T3Threads : BarrierLeave(t)
    \/ \E t \in T3Threads : BarrierUnlock(t)

InitT3 == T3Init /\ A1Init /\ A2Init /\ A4Init

SpecT3 == InitT3 /\ [][T3Next]_vars

\* The same under a scheduler that lets main and every thread take the step
\* it is able to take.
SpecT3Fair ==
    /\ InitT3
    /\ [][T3Next]_vars
    /\ WF_vars(MainCreate)
    /\ WF_vars(MainJoin)
    /\ \A t \in T3Threads : WF_vars(ThreadFunc(t))

\* The file operations of vsfs under every sequence of calls on the file.
A4Next ==
    \/ \E size \in FileSizes : VsfsTruncate(FileName, size)
    \/ \E size \in Cells, offset \in FileSizes :
            VsfsWrite(FileName, size + 1, offset)
    \/ \E size \in Cells, offset \in FileSizes :
            VsfsRead(FileName, size + 1, offset)

SpecA4 == InitPrograms /\ [][A4Next]_vars

\* The operations of vsfs that change the image, under every sequence of
\* calls on the files of the root directory.
A4DirNext ==
    \/ \E name \in Names : VsfsCreate(name)
    \/ \E name \in Names : VsfsUnlink(name)
    \/ \E name \in Names, size \in FileSizes : VsfsTruncate(name, size)
    \/ \E name \in Names, size \in Cells, offset \in FileSizes :
            VsfsWrite(name, size + 1, offset)

SpecA4Dir == InitPrograms /\ [][A4DirNext]_vars

(***************************************************************************)
(* Claims about A1                                                         *)
(***************************************************************************)

InUserCode == pc \in {"call", "user"}

\* A step in which the running thread calls the library function op.
Calls(op) == pc = "call" /\ call'.op = op

Min(S) == CHOOSE x \in S : \A y \in S : x <= y

\* s without its first occurrence of x.
RECURSIVE Without(_, _)
Without(s, x) ==
    IF s = <<>> THEN <<>>
    ELSE IF Head(s) = x THEN Tail(s)
    ELSE <<Head(s)>> \o Without(Tail(s), x)

\* C1: as long as the initial thread creates the threads T1..Tn and every
\* thread only calls thread_yield(THREAD_ANY), each thread_yield dispatches
\* the successor of its caller in the cycle initial, T1, ..., Tn, initial,
\* ... (the i-th created thread holds identifier i, which the first conjunct
\* checks).
C1_RoundRobin ==
    [][ (round_robin /\ round_robin')
        => /\ (Calls("create") /\ call'.ret \in Tids)
                => call'.ret = Cardinality(live)
           /\ Calls("yield")
                => IF Cardinality(live) = 1
                   THEN call'.ret = THREAD_NONE /\ UNCHANGED current_thread
                   ELSE /\ pc' = "resume"
                        /\ current_thread' =
                               (current_thread + 1) % Cardinality(live)
      ]_vars

\* The whole cycle has gone round: with every identifier in use, the initial
\* thread runs again after the last created thread yielded to it.
C1_Witness ==
    /\ round_robin
    /\ live = Tids
    /\ pc = "user"
    /\ call.op = "resumed"
    /\ current_thread = 0
    /\ switched_to[THREAD_MAX_THREADS - 1] = 0

\* C2: whenever a thread exits, the process terminates exactly when no other
\* thread is ready at that moment; otherwise the head of the ready queue
\* becomes the running thread and the other ready threads stay queued.
C2_ExitDispatchesHead ==
    [][ (current_thread \in live /\ current_thread \notin live')
        => /\ (pc' = "exited") <=> (ReadyQueue = <<>>)
           /\ ReadyQueue # <<>>
                => /\ current_thread' = Head(ReadyQueue)
                   /\ ReadyQueue' = Tail(ReadyQueue)
      ]_vars

\* C3: whenever control is in user code, the list starting at current_thread
\* is acyclic, its head is the one thread that is not suspended, and it
\* holds every live thread exactly once.
C3_RunListInv ==
    InUserCode =>
        /\ Len(RunList) <= THREAD_MAX_THREADS
        /\ Cardinality(Range(RunList)) = Len(RunList)
        /\ Range(RunList) = live
        /\ current_thread \in live
        /\ \A t \in live : (context[t] = "stale") <=> (t = current_thread)

\* User code runs after creates, yields, a kill and the initial thread's
\* exit: three threads are left, one of them killed and still queued.
C3_Witness ==
    /\ pc = "user"
    /\ call.op = "resumed"
    /\ 0 \notin live
    /\ Cardinality(live) = THREAD_MAX_THREADS - 1
    /\ \E t \in live : state[t] = 3

\* C4: every successful thread_create returns the smallest identifier of
\* 0..THREAD_MAX_THREADS-1 that no live thread holds at the call.
C4_SmallestUnused ==
    [][ (Calls("create") /\ call'.ret \in Tids)
        => call'.ret = Min(Tids \ live)
      ]_vars

\* C5: thread_create (its allocations succeeding) returns THREAD_NOMORE,
\* changing nothing, exactly when THREAD_MAX_THREADS threads are live, and
\* once one of THREAD_MAX_THREADS live threads has exited the next
\* thread_create returns the identifier that thread held.
C5_Capacity ==
    [][ (Calls("create") /\ call'.ret # THREAD_NOMEMORY)
        => /\ (call'.ret = THREAD_NOMORE)
                <=> (Cardinality(live) = THREAD_MAX_THREADS)
           /\ call'.ret = THREAD_NOMORE
                => UNCHANGED <<current_thread, next, state, live>>
           /\ Cardinality(live) = THREAD_MAX_THREADS - 1
                => {call'.ret} = Tids \ live
      ]_vars

\* The thread a call thread_yield(want_tid) resolves to in the current state.
Resolved(want_tid) ==
    IF want_tid = THREAD_ANY THEN Head(ReadyQueue) ELSE want_tid

\* A step of thread_yield that switches to another thread.
YieldSwitches ==
    /\ Calls("yield")
    /\ pc' = "resume"
    /\ current_thread' # current_thread
    /\ current_thread \in live'

C7_SwitchEffect ==
    YieldSwitches
    => /\ current_thread' = Resolved(call'.arg)
       /\ thread_id(A1State') = Resolved(call'.arg)
       /\ ReadyQueue' = Without(ReadyQueue, Resolved(call'.arg))
                            \o <<current_thread>>
       /\ switched_to'[current_thread] = Resolved(call'.arg)

\* The dispatch of a thread that is suspended inside thread_yield ends with
\* thread_yield returning, to that thread, the identifier it switched to.
C7_ReturnsResolved ==
    /\ pc' = "user"
    /\ current_thread' = current_thread
    /\ call'.returned
    /\ call'.ret = switched_to[current_thread]

\* C7 as stated: a thread_yield that switches to another thread makes the
\* resolved thread the running one, puts the caller at the tail of the ready
\* queue keeping the order of the others, and returns the resolved
\* identifier when the caller is next dispatched.
C7_Original ==
    [][ /\ C7_SwitchEffect
        /\ (pc = "resume" /\ context[current_thread] = "yield")
            => C7_ReturnsResolved
      ]_vars

\* C7 amended: the same, the return taking place when the caller is next
\* dispatched without having been killed in the meantime.
C7_Amended ==
    [][ /\ C7_SwitchEffect
        /\ (pc = "resume" /\ context[current_thread] = "yield"
                /\ state[current_thread] # 3)
            => C7_ReturnsResolved
      ]_vars

\* With every identifier in use, a thread is back in user code from a
\* thread_yield that had switched to another thread.
C7_Witness ==
    /\ pc = "user"
    /\ call.op = "resumed"
    /\ call.returned
    /\ call.ret \in Tids \ {current_thread}
    /\ Len(RunList) = THREAD_MAX_THREADS

\* What a failed call leaves as it was.
A1Unchanged ==
    UNCHANGED <<current_thread, next, state, context, want, to_free_1,
                to_free_2, exit_status, live, switched_to>>

YieldFailsInvalid ==
    /\ pc' = "user"
    /\ call'.returned
    /\ call'.ret = THREAD_INVALID
    /\ A1Unchanged

\* C8 as stated: thread_yield with an explicit identifier that is not in the
\* ready queue returns THREAD_INVALID and changes nothing.
C8_Original ==
    [][ (Calls("yield") /\ call'.arg \in 0 .. THREAD_MAX_THREADS
            /\ call'.arg \notin Range(ReadyQueue))
        => YieldFailsInvalid
      ]_vars

\* C8 amended: thread_yield with an explicit identifier that is neither the
\* caller's own nor in the ready queue returns THREAD_INVALID and changes
\* nothing.
C8_Amended ==
    [][ (Calls("yield") /\ call'.arg \in 0 .. THREAD_MAX_THREADS
            /\ call'.arg \notin Range(ReadyQueue)
            /\ call'.arg # current_thread)
        => YieldFailsInvalid
      ]_vars

\* thread_yield has returned THREAD_INVALID for an identifier in range while
\* two other threads were ready.
C8_Witness ==
    /\ pc = "user"
    /\ call.op = "yield"
    /\ call.arg \in Tids
    /\ call.ret = THREAD_INVALID
    /\ Len(ReadyQueue) = 2

\* C9: thread_yield(THREAD_ANY) with an empty ready queue returns
\* THREAD_NONE; the caller stays the running thread and the run list is
\* unchanged.
C9_YieldAnyAlone ==
    [][ (Calls("yield") /\ call'.arg = THREAD_ANY /\ ReadyQueue = <<>>)
        => /\ pc' = "user"
           /\ call'.returned
           /\ call'.ret = THREAD_NONE
           /\ A1Unchanged
      ]_vars

\* A created thread that has become the only live thread got THREAD_NONE.
C9_Witness ==
    /\ pc = "user"
    /\ call = [op |-> "yield", arg |-> THREAD_ANY, ret |-> THREAD_NONE,
               returned |-> TRUE]
    /\ live = {current_thread}
    /\ current_thread # 0

\* C10: thread_yield(THREAD_SELF) always succeeds: the caller stays the
\* running thread, the ready queue keeps its content and order, and the call
\* returns the caller's own identifier.
C10_YieldSelf ==
    [][ /\ (Calls("yield") /\ call'.arg = THREAD_SELF)
            => /\ pc' = "resume"
               /\ UNCHANGED <<current_thread, next, live>>
        /\ (pc = "resume" /\ call.op = "yield" /\ call.arg = THREAD_SELF)
            => /\ pc' = "user"
               /\ call'.returned
               /\ call'.ret = current_thread
               /\ UNCHANGED <<current_thread, next, live>>
      ]_vars

\* C11: a thread killed after its thread_create and before its first
\* dispatch runs no statement of its entry function: its first dispatch does
\* not hand control to user code.
C11_KilledBeforeFirstRun ==
    [][ (pc = "resume" /\ context[current_thread] = "stub"
            /\ state[current_thread] = 3)
        => pc' # "user"
      ]_vars

\* C12: a thread killed while suspended inside thread_yield does not return
\* from that call: on its next dispatch it exits, and the head of the ready
\* queue, if there is one, runs next (the process ends otherwise).
C12_KilledInYieldExits ==
    [][ (pc = "resume" /\ context[current_thread] = "yield"
            /\ state[current_thread] = 3)
        => /\ ~call'.returned
           /\ current_thread \notin live'
           /\ IF ReadyQueue = <<>>
              THEN pc' = "exited" /\ exit_status' = 0
              ELSE /\ pc' = "resume"
                   /\ current_thread' = Head(ReadyQueue)
                   /\ ReadyQueue' = Tail(ReadyQueue)
      ]_vars

\* A thread resumed inside thread_yield has exited instead of returning, and
\* the head of a ready queue of two threads has been given control.
C12_Witness ==
    /\ pc = "resume"
    /\ call.op = "resumed"
    /\ ~call.returned
    /\ Len(ReadyQueue) = 1
    /\ Cardinality(live) = 2

\* C14: thread_kill returns THREAD_INVALID and changes no thread's state
\* when the identifier is the caller's own, is held by no live thread, or
\* names a thread already killed and not yet exited.
C14_KillInvalid ==
    [][ (Calls("kill") /\ \/ call'.arg = current_thread
                          \/ call'.arg \notin live
                          \/ state[call'.arg] = 3)
        => /\ call'.ret = THREAD_INVALID
           /\ UNCHANGED state
      ]_vars

\* C15: a successful thread_kill(t) returns t to the caller, which stays the
\* running thread, and the ready queue keeps its content and order, the
\* target included.
C15_KillFrame ==
    [][ (Calls("kill") /\ call'.ret # THREAD_INVALID)
        => /\ pc' = "user"
           /\ call'.returned
           /\ call'.ret = call'.arg
           /\ state'[call'.arg] = 3
           /\ UNCHANGED <<current_thread, next, live>>
           /\ ReadyQueue' = ReadyQueue
           /\ call'.arg \in Range(ReadyQueue')
      ]_vars

\* thread_kill has succeeded on the middle one of three ready threads.
C15_Witness ==
    /\ pc = "user"
    /\ call.op = "kill"
    /\ call.ret \in Tids
    /\ Len(ReadyQueue) = 3
    /\ ReadyQueue[2] = call.ret
    /\ state[call.ret] = 3

\* C16: no step frees the stack and the control block of the thread that
\* executes it (a block is freed in the step in which its state becomes 0,
\* and the stack of a thread is freed together with its block).
C16_NoSelfFree ==
    [][ \A t \in Tids :
            (state[t] # 0 /\ state'[t] = 0) => t # current_thread
      ]_vars

\* C24: a thread_create that returns an identifier leaves its caller running,
\* returns an identifier no thread of the run list had, and puts the new
\* thread, ready to start, behind every thread of the ready queue.
C24_CreateFrame ==
    [][ (Calls("create") /\ call'.ret \in Tids)
        => /\ pc' = "user"
           /\ current_thread' = current_thread
           /\ call'.ret \notin Range(RunList)
           /\ ReadyQueue' = ReadyQueue \o <<call'.ret>>
           /\ state'[call'.ret] = 1
           /\ context'[call'.ret] = "stub"
      ]_vars

\* thread_create has returned the identifier of a thread it put behind two
\* threads that were ready.
C24_Witness ==
    /\ pc = "user"
    /\ call.op = "create"
    /\ call.ret \in Tids
    /\ Len(ReadyQueue) = 3
    /\ ReadyQueue[3] = call.ret

(***************************************************************************)
(* Claims about A2                                                         *)
(***************************************************************************)

NoDuplicates(q) == \A i, j \in 1 .. Len(q) : q[i] = q[j] => i = j

\* C6: in user code each identifier occurs at most once among the running
\* thread and the entries of the ready queue, and thread_create never
\* returns an identifier that is still in the ready queue.
C6_IdentifiersUnique ==
    [][ /\ a2_pc' \in {"call", "user"}
            => NoDuplicates(<<a2_current_thread'>> \o ready')
        /\ (a2_pc = "call" /\ a2_call'.op = "create" /\ a2_call'.ret \in Tids)
            => a2_call'.ret \notin Range(ready)
      ]_vars

\* A step in which the running thread of A2 calls the library function op.
A2Calls(op) == a2_pc = "call" /\ a2_call'.op = op

\* C13: a successful thread_kill(t) marks the target as killed (state 3), not
\* as FREE (state 0).
C13_KillMarksKilled ==
    [][ (A2Calls("kill") /\ a2_call'.ret \in Tids)
        => threads'[a2_call'.ret].state = 3
      ]_vars

\* C17: every call that returns to its caller, with a success value or an
\* error value, returns with the interrupt-enabled flag as it was at the
\* moment of the call.
C17_InterruptsRestored ==
    [][ (a2_pc = "call" /\ a2_pc' = "user" /\ a2_call'.returned)
        => interrupts_enabled' = interrupts_enabled
      ]_vars

\* C18: when thread_create fails with THREAD_NOMEMORY, the slot it had
\* chosen is FREE afterwards and the ready queue is unchanged (so that a
\* later thread_create can return that identifier).
C18_CreateNoMemory ==
    [][ (A2Calls("create") /\ a2_call'.ret = THREAD_NOMEMORY)
        => /\ threads'[a2_create_find_tid(A2State, 0)].state = 0
           /\ ready' = ready
      ]_vars

\* The threads in the wait queue, head first.
WaitQueue == a2_wait_queue(A2State)

\* C19: thread_sleep puts its caller behind the threads already in the wait
\* queue, and thread_wakeup(queue, 0) on a queue that holds a thread returns
\* 1, removes exactly the head of the wait queue and puts it at the tail of
\* the ready queue: threads are woken in the order in which they blocked.
C19_WakeupOneFifo ==
    [][ /\ (A2Calls("sleep") /\ a2_call'.arg # NULL /\ ready # <<>>)
            => /\ a2_pc' = "resume"
               /\ WaitQueue' = WaitQueue \o <<a2_current_thread>>
               /\ a2_current_thread' = Head(ready)
               /\ ready' = Tail(ready)
        /\ (A2Calls("wakeup") /\ a2_call'.arg = 0 /\ WaitQueue # <<>>)
            => /\ a2_pc' = "user"
               /\ a2_call'.ret = 1
               /\ WaitQueue' = Tail(WaitQueue)
               /\ ready' = ready \o <<Head(WaitQueue)>>
               /\ a2_current_thread' = a2_current_thread
      ]_vars

\* C20: thread_wakeup(queue, 1) on a wait queue that holds k >= 0 threads
\* returns k, appends them to the ready queue in their blocking order and
\* leaves the wait queue empty.
C20_WakeupAll ==
    [][ (A2Calls("wakeup") /\ a2_call'.arg = 1)
        => /\ a2_pc' = "user"
           /\ a2_call'.ret = Len(WaitQueue)
           /\ ready' = ready \o WaitQueue
           /\ wq_head' = NULL
           /\ WaitQueue' = <<>>
      ]_vars

\* A thread that went to sleep and is neither running nor in the ready queue.
Blocked(t) ==
    /\ threads[t].context = "sleep"
    /\ t \notin Range(a2_run_list(A2State))

\* C21: after every call, every blocked thread is in the wait queue exactly
\* once, no thread of the wait queue is running or in the ready queue, and
\* the thread a step dispatches was not in the wait queue before the step.
C21_BlockedInOneQueue ==
    [][ /\ \A t \in Tids : Blocked(t)' => t \in Range(WaitQueue')
        /\ NoDuplicates(WaitQueue')
        /\ \A t \in Range(WaitQueue') : t \notin Range(a2_run_list(A2State'))
        /\ a2_current_thread' # a2_current_thread
              => a2_current_thread' \notin Range(WaitQueue)
      ]_vars

\* Nothing of the A2 runtime but the record of the call changes.
A2Unchanged ==
    UNCHANGED <<a2_current_thread, threads, ready, a2_to_free_1,
                a2_to_free_2, wq_allocated, wq_head, wait_next,
                lock_allocated, cv_allocated, holding,
                interrupts_enabled, a2_exit_status>>

\* C22: thread_sleep(NULL) returns THREAD_INVALID and thread_sleep(queue)
\* with an empty ready queue returns THREAD_NONE; either way the caller is
\* still running and the wait queue, the ready queue and everything else are
\* as before.
C22_SleepFails ==
    [][ /\ (A2Calls("sleep") /\ a2_call'.arg = NULL)
            => /\ a2_pc' = "user"
               /\ a2_call'.ret = THREAD_INVALID
               /\ A2Unchanged
        /\ (A2Calls("sleep") /\ a2_call'.arg # NULL /\ ready = <<>>)
            => /\ a2_pc' = "user"
               /\ a2_call'.ret = THREAD_NONE
               /\ WaitQueue' = WaitQueue
               /\ A2Unchanged
      ]_vars

\* thread_sleep has returned THREAD_NONE to a thread that is alone while
\* another thread is blocked in the wait queue.
C22_Witness ==
    /\ a2_pc = "user"
    /\ a2_call.op = "sleep"
    /\ a2_call.ret = THREAD_NONE
    /\ ready = <<>>
    /\ WaitQueue # <<>>
    /\ a2_current_thread \notin Range(WaitQueue)

\* s is the front of t.
IsPrefix(s, t) == Len(s) <= Len(t) /\ SubSeq(t, 1, Len(s)) = s

\* C23: a thread_wakeup that returns leaves its caller running and the
\* threads already in the ready queue where they were, in front of the woken
\* ones; on a NULL or empty queue it returns 0 and changes nothing.
C23_WakeupFrame ==
    [][ A2Calls("wakeup")
        => /\ a2_call'.returned
                => /\ a2_current_thread' = a2_current_thread
                   /\ IsPrefix(ready, ready')
           /\ (a2_call'.arg = NULL \/ WaitQueue = <<>>)
                => /\ a2_pc' = "user"
                   /\ a2_call'.ret = 0
                   /\ A2Unchanged
      ]_vars

\* C25: at most one thread is between a lock_acquire that returned and its
\* lock_release.
C25_MutualExclusion == Cardinality(holding) <= 1

\* The threads waiting on the condition variable: struct cv has no field and
\* cv_wait saves no context, so no thread is ever suspended in cv_wait.
CvWaiters == {t \in Tids : threads[t].context = "cv_wait"}

C27_ThreadWait ==
    [][ A2Calls("wait")
        => LET tid == a2_call'.arg
               valid == /\ tid \in Tids
                        /\ tid # a2_current_thread
                        /\ threads[tid].state # 0
           IN  /\ ~valid => /\ a2_pc' = "user"
                            /\ a2_call'.ret = THREAD_INVALID
                            /\ A2Unchanged
               /\ valid => /\ a2_pc' = "resume"
                           /\ a2_current_thread' # a2_current_thread
      ]_vars

\* C32: the stack thread_create allocated for a thread is handed to
\* free_stuff when the thread exits: a thread_exit that dispatches another
\* thread leaves the exiting thread's stack in to_free_1, and no step stores
\* a pointer in a to_free slot that still holds one.
C32_StackFreedOnce ==
    [][ /\ (a2_to_free_1' # a2_to_free_1 /\ a2_to_free_1' # NULL)
            => a2_to_free_1 = NULL
        /\ (a2_to_free_2' # a2_to_free_2 /\ a2_to_free_2' # NULL)
            => a2_to_free_2 = NULL
        /\ (/\ A2Calls("exit")
            /\ a2_pc' # "exited"
            /\ threads[a2_current_thread].thread_stack # NULL)
            => a2_to_free_1' = threads[a2_current_thread].thread_stack
      ]_vars

\* C33: under timer interrupts thread_wakeup never dequeues from an empty
\* wait queue: when it goes on from its test to remove the head, with
\* interrupts masked, the queue it found non-empty is not empty.
C33_WakeupUnderPreemption ==
    [][ (/\ a2_pc = "wakeup_tested"
         /\ threads'[a2_current_thread].wakeup_all = NULL)
        => wq_head # NULL
      ]_vars

\* C34: no live thread is lost by thread_yield: when the call switches to
\* another thread, the caller is in the ready queue afterwards, whether or
\* not ready_enqueue could allocate its node.
C34_YieldKeepsCaller ==
    [][ (A2Calls("yield") /\ a2_current_thread' # a2_current_thread)
        => a2_current_thread \in Range(ready')
      ]_vars

(***************************************************************************)
(* Claims about T3/barrier.c                                               *)
(***************************************************************************)

Extended ==
    /\ fs_call'.op \in {"truncate", "write"}
    /\ fs_call'.ret >= 0
    /\ itable'[FileIno].i_size > fs_call'.old_size

\* C30: when vsfs_truncate, or vsfs_write past the end of the file, makes
\* the file larger, every byte of the added range that the call does not
\* itself write reads back as zero.
C30_ExtensionZeroed ==
    [][Extended =>
          \A p \in fs_call'.old_size .. (itable'[FileIno].i_size - 1) :
              \/ /\ fs_call'.op = "write"
                 /\ p >= fs_call'.offset
                 /\ p < fs_call'.offset + fs_call'.size
              \/ read_byte(FsState', FileIno, p) = 0]_vars

\* The inode that the call of the step works on, found before the call.
CallIno == path_lookup(FsState, fs_call'.name).ino

\* The blocks an extension of inode ino to size needs: the new data blocks,
\* and an indirect block when the file gets its first block behind the
\* direct ones and has no indirect block.
BlocksNeeded(ino, size) ==
    LET new_blocks == div_round_up(size, VSFS_BLOCK_SIZE)
        cur_blocks == div_round_up(itable[ino].i_size, VSFS_BLOCK_SIZE)
    IN IF new_blocks <= cur_blocks
       THEN 0
       ELSE (new_blocks - cur_blocks)
            + (IF new_blocks > VSFS_NUM_DIRECT
                  /\ ~valid_block(itable[ino].i_indirect)
               THEN 1
               ELSE 0)

FreeBlocks == Cardinality({b \in Blocks : ~dbmap[b]})
FreeInodes == Cardinality({i \in Inodes : ~ibmap[i]})

\* The step left the inode table, the data bitmap and sb_free_blocks as
\* they were.
TruncateNoChange ==
    /\ itable' = itable
    /\ dbmap' = dbmap
    /\ sb_free_blocks' = sb_free_blocks

\* C31: vsfs_truncate returns -EFBIG with no change when the new size needs
\* more blocks than an inode can have, and returns -ENOSPC with no change
\* to the inode, the data bitmap and sb_free_blocks when the file system
\* has not enough free blocks for the new data blocks and the indirect
\* block the extension needs; so it never returns 0 after a block
\* allocation failed.
C31_TruncateErrors ==
    [][fs_call'.op = "truncate" /\ CallIno \in Inodes =>
          IF div_round_up(fs_call'.size, VSFS_BLOCK_SIZE)
                 > VSFS_NUM_DIRECT + IndirectEntries
          THEN fs_call'.ret = -EFBIG /\ TruncateNoChange
          ELSE BlocksNeeded(CallIno, fs_call'.size) > FreeBlocks =>
                   fs_call'.ret = -ENOSPC /\ TruncateNoChange]_vars

\* C36: after every call that returned with the image intact, sb_free_blocks
\* is the number of clear bits of the data bitmap and sb_free_inodes the
\* number of clear bits of the inode bitmap.
C36_FreeCounts ==
    fs_pc = "run" =>
        /\ sb_free_blocks = FreeBlocks
        /\ sb_free_inodes = FreeInodes

\* The blocks inode ino owns: its direct blocks, its indirect block and the
\* blocks listed there.
OwnedBlocks(ino) ==
    Range(valid_blocks(itable[ino].i_direct, 0))
    \cup (IF valid_block(itable[ino].i_indirect)
          THEN {itable[ino].i_indirect}
               \cup Range(valid_blocks(
                         [n \in 0 .. (IndirectEntries - 1) |->
                             load(FsState, itable[ino].i_indirect, n)], 0))
          ELSE {})

\* C37: vsfs_unlink clears in the data bitmap the bits of the blocks the
\* removed file owns and no other bit, so no block of the root directory or
\* of another file is freed, and it leaves every other inode as it was.
C37_UnlinkFreesOwnBlocks ==
    [][ (/\ fs_call'.op = "unlink"
         /\ fs_calls' = fs_calls + 1
         /\ CallIno \in Inodes)
        => /\ \A b \in Blocks :
                  dbmap'[b] = (dbmap[b] /\ b \notin OwnedBlocks(CallIno))
           /\ \A i \in Inodes \ {CallIno} : itable'[i] = itable[i]
      ]_vars

====
